---------------------------- MODULE Spec2Model ----------------------------
(***************************************************************************)
(* Model of scripts/migrate_confluence.py: the command line entry point,   *)
(* the paginated listing of a Confluence space, and the per-page migration *)
(* loop (name resolution, conversion, page upsert, attachment copy, final  *)
(* report).  The Confluence and XWiki servers are the environment: their   *)
(* answers and their failures are drawn nondeterministically.  A second    *)
(* run of the script over the same source and target is modelled too.      *)
(*                                                                         *)
(* The library functions are modelled as calls of their own, each with its *)
(* own specification: build_page_tree of the migration script, and of the  *)
(* bridge _md_to_xwiki (routers/github_sync.py), whose regular expression  *)
(* passes are computed on sequences of characters, and _docx_to_xwiki      *)
(* (routers/word_import.py).                                               *)
(***************************************************************************)
EXTENDS Integers, Sequences, FiniteSets, TLC

\* ------------------------------------------------------------- bounds
\* Largest source space of the detailed runs (Init).
MaxPages == 2
\* Longest attachment listing a page can have.
MaxAtts == 2
\* Largest source space of the pagination runs (InitPaging).
MaxSpace == 101
\* Longest title among the short titles of the naming runs (InitNames).
MaxTitleLen == 3
\* Most pages handed to build_page_tree (InitTree).
MaxTreePages == 3
\* Longest Markdown text made of asterisks and letters (InitMd).
MaxStars == 9
\* Most fragments a Markdown text is put together from (InitMd).
MaxFrags == 3
\* Most paragraphs of a Word document (InitDocx).
MaxParas == 2

\* Fragments of storage format in an input of confluence_storage_to_xwiki.
MaxCfFrags == 2

\* Fragments in a text a rewriter is applied to twice (InitAgain).
MaxCanonFrags == 2

\* Most repositories of the GitHub user (InitListRepos).
MaxRepos == 201

\* Most repositories of a request of sync_repos (RepoLists).
MaxSyncRepos == 3

\* ---------------------------------------------------------- constants
\* get_space_pages: limit = 50
limit == 50
\* sanitize_page_name: name[:100]
MaxNameLen == 100

\* list_repos: "per_page": 100
per_page == 100

\* ------------------------------------------------------ pure functions
Min(a, b) == IF a < b THEN a ELSE b

Digits == <<"0", "1", "2", "3", "4", "5", "6", "7", "8", "9">>

\* Decimal text of a page id (ids are the strings the listing carries).
RECURSIVE IdStr(_)
IdStr(n) == IF n < 10 THEN <<Digits[n + 1]>>
            ELSE IdStr(n \div 10) \o <<Digits[(n % 10) + 1]>>

Lower == {"a", "b", "c", "d", "e", "f", "g", "h", "i", "j", "k", "l", "m",
          "n", "o", "p", "q", "r", "s", "t", "u", "v", "w", "x", "y", "z"}
Upper == {"A", "B", "C", "D", "E", "F", "G", "H", "I", "J", "K", "L", "M",
          "N", "O", "P", "Q", "R", "S", "T", "U", "V", "W", "X", "Y", "Z"}
DigitChars == {"0", "1", "2", "3", "4", "5", "6", "7", "8", "9"}

\* The characters the first substitution keeps: [a-zA-Z0-9_\- ]
KeptChar(c) == c \in Lower \cup Upper \cup DigitChars \cup {"_", "-", " "}

\* sanitize_page_name: drop every character outside [a-zA-Z0-9_\- ], turn
\* each space into "_", keep the first 100 characters.
sanitize_page_name(title) ==
    LET kept == SelectSeq(title, KeptChar)
        name == [k \in 1..Len(kept) |-> IF kept[k] = " " THEN "_" ELSE kept[k]]
    IN  SubSeq(name, 1, Min(Len(name), MaxNameLen))

\* bridge/app/routers/github_sync.py, _sanitize_page_name: every character
\* outside [a-zA-Z0-9_-] becomes "_"; nothing is dropped or cut.
_sanitize_page_name(name) ==
    [k \in 1..Len(name) |->
        IF name[k] \in Lower \cup Upper \cup DigitChars \cup {"_", "-"}
        THEN name[k] ELSE "_"]

\* A variant of PageName without the fallback of line 262.
PageName_NoFallback(page) == sanitize_page_name(page.title)

\* migrate, lines 260-262: the sanitized title, or Page_<id> when it is empty.
PageName(page) ==
    LET name == sanitize_page_name(page.title)
    IN  IF name = <<>> THEN <<"P", "a", "g", "e", "_">> \o IdStr(page.id) ELSE name

\* ------------------------------------------------------------- inputs
\* What one element of the listing's "results" can look like.  title_null
\* is a JSON null title; body is "str" (body.storage.value is a string),
\* "null_value" (body.storage.value is null) or "null" (body is null).
DocKinds ==
    { [title_null |-> FALSE, title |-> t, body |-> "str"] :
          t \in { <<"a", " ">>, <<"a", "_">>, <<"!">> } }
    \cup { [title_null |-> FALSE, title |-> <<"a", " ">>, body |-> "null_value"],
           [title_null |-> FALSE, title |-> <<"a", " ">>, body |-> "null"],
           [title_null |-> TRUE, title |-> <<>>, body |-> "str"] }

MkDoc(k, kind) == [id |-> k, title_null |-> kind.title_null,
                   title |-> kind.title, body |-> kind.body]

\* One element of an attachment listing: its title and its download link,
\* either of which may be the empty string.
AttKinds == { [title |-> "f.png", download |-> "/download/f.png"],
              [title |-> "", download |-> "/download/f.png"],
              [title |-> "f.png", download |-> ""] }

AttLists == UNION { [1..n -> AttKinds] : n \in 0..MaxAtts }

Endpoints == {"list", "put", "attlist", "download", "upload"}

VARIABLES
    args,         \* parsed command line: passwords present, dry_run
    space,        \* the documents of the source space, in listing order
    flaky,        \* the endpoints that may answer with an error
    att_pool,     \* the attachment listings the source may answer with
    pc,           \* position of the process
    exit_code,    \* -1 while running, then the process's exit status
    start,        \* get_space_pages: next offset
    pages,        \* get_space_pages: results so far; then migrate's pages
    requests,     \* offsets of the listing requests issued, in order
    list_failed,  \* a listing request answered with an error
    i,            \* index in pages of the page being processed (0: none)
    page_name,    \* name resolved for the current page
    attachments,  \* attachment listing of the current page
    j,            \* index of the next attachment of the current page
    migrated,     \* migrate's counter
    errors,       \* migrate's error list
    wiki,         \* target store: pages, keyed by page_name
    wiki_att,     \* target store: <<page_name, filename>> of attachments
    called,       \* the endpoints the run has called so far
    put_ok,       \* put_page of the current page returned successfully
    attempted,    \* indices of the attachments attempted for the current page
    att_failed,   \* indices of the attachments of the current page that failed
    att_errors,   \* pages with an "Attachment error" log line
    raised,       \* pages one of whose steps raised
    transformed,  \* pages whose body went through the conversion
    names,        \* page_name assigned to each page read so far
    lifecycle,    \* per page, the states it went through
    puts,         \* the put_page calls the current run has issued, in order
    run,          \* 1 in the first run of the script, 2 in a second run
    first,        \* what the first run left behind, once a second one starts
    md,           \* a call of _md_to_xwiki: its input, its text, its position
    docx,         \* a call of _docx_to_xwiki: paragraphs, lines, its position
    tree,         \* a call of build_page_tree: pages, tree, its position
    cf,           \* a call of confluence_storage_to_xwiki: input, text
    prev,         \* the call before the current one: its input, its result
    lr,           \* a call of list_repos: pages requested, repos, position
    sync,         \* a request of sync_repos: lists, wiki, its position
    word,         \* a request of import_word: upload, page written
    sched,        \* a run of _run_all_scans: the steps taken, its position
    api           \* a request of scan_all: results, its position

vars == <<args, space, flaky, att_pool, pc, exit_code, start, pages,
          requests, list_failed, i, page_name, attachments, j, migrated,
          errors, wiki, wiki_att, called, put_ok, attempted, att_failed,
          att_errors, raised, transformed, names, lifecycle, puts, run,
          first, md, docx, tree, cf, prev, lr, sync, word, sched, api>>

\* The library functions are modelled as calls of their own; in a run of
\* the migration script none of them is in progress.
Off == [stage |-> "off"]
\* The calls and requests modelled after the first three library functions.
Services == <<cf, prev, lr, sync, word, sched, api>>
ServicesOff ==
    /\ cf = Off
    /\ prev = Off
    /\ lr = Off
    /\ sync = Off
    /\ word = Off
    /\ sched = Off
    /\ api = Off

LibVars == <<md, docx, tree, Services>>
LibOff == md = Off /\ docx = Off /\ tree = Off /\ ServicesOff

\* Everything but the inputs, as it is when the process starts.
Blank ==
    /\ pc = "main"
    /\ exit_code = -1
    /\ start = 0
    /\ pages = <<>>
    /\ requests = <<>>
    /\ list_failed = FALSE
    /\ i = 0
    /\ page_name = <<>>
    /\ attachments = <<>>
    /\ j = 0
    /\ migrated = 0
    /\ errors = <<>>
    /\ wiki = {}
    /\ wiki_att = {}
    /\ called = {}
    /\ put_ok = FALSE
    /\ attempted = <<>>
    /\ att_failed = <<>>
    /\ att_errors = {}
    /\ raised = {}
    /\ transformed = {}
    /\ names = <<>>
    /\ lifecycle = <<>>
    /\ puts = <<>>

\* A small space of arbitrary documents, every endpoint possibly failing.
Init ==
    /\ args \in [confluence_password : BOOLEAN, xwiki_password : BOOLEAN,
                 dry_run : BOOLEAN]
    /\ \E n \in 0..MaxPages : \E f \in [1..n -> DocKinds] :
           space = [k \in 1..n |-> MkDoc(k, f[k])]
    /\ flaky = Endpoints
    /\ att_pool = AttLists
    /\ Blank
    /\ run = 1
    /\ first = Off
    /\ LibOff

\* A space of up to MaxSpace plain documents with at most one attachment
\* each; only the listing may fail.
InitPaging ==
    /\ args \in [confluence_password : {TRUE}, xwiki_password : {TRUE},
                 dry_run : BOOLEAN]
    /\ \E n \in 0..MaxSpace :
           space = [k \in 1..n |->
                       MkDoc(k, [title_null |-> FALSE, title |-> <<"a", " ">>,
                                 body |-> "str"])]
    /\ flaky = {"list"}
    /\ att_pool = {<<>>, <<[title |-> "f.png", download |-> "/download/f.png"]>>}
    /\ Blank
    /\ run = 1
    /\ first = Off
    /\ LibOff

\* The characters of the titles of the naming runs: letters, a digit, the
\* two punctuation marks of the name grammar, a space, and two characters
\* outside the grammar.
TitleChars == {"a", "Z", "7", "_", "-", " ", "!", "/"}

Repeat(c, n) == [k \in 1..n |-> c]

\* Every short title, and titles around the length limit of line 230.
Titles ==
    UNION { [1..n -> TitleChars] : n \in 0..MaxTitleLen }
    \cup { Repeat(c, n) \o tail : c \in {"a", " ", "!"},
                                  n \in (MaxNameLen - 1)..(MaxNameLen + 1),
                                  tail \in {<<>>, <<"!">>, <<"a", "b">>} }

\* A space of one document with any of the titles; every endpoint but the
\* listing may fail.
InitNames ==
    /\ args \in [confluence_password : {TRUE}, xwiki_password : {TRUE},
                 dry_run : BOOLEAN]
    /\ \E t \in Titles :
           space = <<MkDoc(1, [title_null |-> FALSE, title |-> t,
                               body |-> "str"])>>
    /\ flaky = Endpoints \ {"list"}
    /\ att_pool = {<<>>, <<[title |-> "f.png", download |-> "/download/f.png"]>>}
    /\ Blank
    /\ run = 1
    /\ first = Off
    /\ LibOff

\* The answers an endpoint can give: TRUE a success, FALSE an error status
\* or a transport error (raise_for_status / httpx exception).
Answers(endpoint) == IF endpoint \in flaky THEN BOOLEAN ELSE {TRUE}


\* ------------------------------------------------------------ helpers
\* The variables only get_space_pages writes.
ListingVars == <<start, requests, list_failed>>
\* The target store.
StoreVars == <<wiki, wiki_att>>
\* What is known about the attachments of the current page.
AttVars == <<attachments, j, attempted, att_failed, att_errors>>

\* The Confluence listing endpoint: the slice of the space at the offset,
\* with "size" the number of results in it.
ListContent(offset, lim) ==
    LET last == Min(Len(space), offset + lim)
        results == IF offset >= Len(space) THEN <<>>
                   ELSE SubSeq(space, offset + 1, last)
    IN  [results |-> results, size |-> Len(results)]

\* get_space_pages, line 60: the offset of the next request.
NextStart(offset) == offset + limit

\* A variant of LastListing that compares with <= instead of <.
LastListing_Eager(data) == data.results = <<>> \/ data.size <= limit

\* get_space_pages, lines 55-59: whether the loop ends after this answer.
LastListing(data) == data.results = <<>> \/ data.size < limit

\* An uncaught exception: it leaves migrate and main, the interpreter
\* prints the traceback and exits with status 1.
Uncaught ==
    /\ pc' = "exit"
    /\ exit_code' = 1

\* The for statement of migrate, line 255, after the page at index k: the
\* next page if there is one, else the report.  The per-page locals are
\* dead at that point and are cleared.
Advance(k, pgs) ==
    /\ pc' = IF k < Len(pgs) THEN "page" ELSE "report"
    /\ i' = IF k < Len(pgs) THEN k + 1 ELSE k
    /\ page_name' = <<>>
    /\ attachments' = <<>>
    /\ j' = 0
    /\ put_ok' = FALSE
    /\ attempted' = <<>>
    /\ att_failed' = <<>>

\* migrate, lines 300-302: the handler of the per-page try.
ExceptPage(site) ==
    /\ errors' = Append(errors, [title |-> pages[i].title, error |-> site])
    /\ raised' = raised \cup {i}
    /\ lifecycle' = [lifecycle EXCEPT ![i] = Append(@, "Failed")]
    /\ Advance(i, pages)

\* A variant of ListingError that takes a failed request for the end of
\* the listing and goes on with the pages received so far.
ListingError_Swallowed ==
    /\ list_failed' = TRUE
    /\ exit_code' = exit_code
    /\ start' = start
    /\ pages' = pages
    /\ names' = [k \in 1..Len(pages) |-> <<>>]
    /\ lifecycle' = [k \in 1..Len(pages) |-> <<>>]
    /\ Advance(0, pages)

\* get_space_pages, line 52: resp.raise_for_status() raises; neither
\* get_space_pages nor migrate nor main catches it.
ListingError ==
    /\ list_failed' = TRUE
    /\ Uncaught
    /\ UNCHANGED <<start, pages, i, page_name, attachments, j, put_ok,
                   attempted, att_failed, names, lifecycle>>

\* ------------------------------------------------------------ actions
\* main, lines 311-330: exit 1 when a password is missing, else migrate.
Main ==
    /\ pc = "main"
    /\ IF args.confluence_password /\ args.xwiki_password
       THEN pc' = "listing" /\ exit_code' = exit_code
       ELSE pc' = "exit" /\ exit_code' = 1
    /\ UNCHANGED <<args, space, flaky, att_pool, LibVars, run, first,
                   puts, ListingVars, pages, i,
                   page_name, migrated, errors, StoreVars, called, put_ok,
                   AttVars, raised, transformed, names, lifecycle>>

\* get_space_pages, lines 41-61: one request of the pagination loop; after
\* the last one migrate goes on to its loop (lines 249-255).
GetSpacePages ==
    /\ pc = "listing"
    /\ requests' = Append(requests, start)
    /\ called' = called \cup {"list"}
    /\ \E ok \in Answers("list") :
        LET data == ListContent(start, limit)
            all == pages \o data.results
        IN  IF ok
            THEN /\ list_failed' = FALSE
                 /\ pages' = all
                 /\ exit_code' = exit_code
                 /\ IF LastListing(data)
                    THEN /\ start' = start
                         /\ names' = [k \in 1..Len(all) |-> <<>>]
                         /\ lifecycle' = [k \in 1..Len(all) |-> <<>>]
                         /\ Advance(0, all)
                    ELSE /\ start' = NextStart(start)
                         /\ UNCHANGED <<pc, i, page_name, attachments, j,
                                        put_ok, attempted, att_failed, names,
                                        lifecycle>>
            ELSE ListingError
    /\ UNCHANGED <<args, space, flaky, att_pool, LibVars, run, first,
                   puts, migrated, errors, StoreVars,
                   att_errors, raised, transformed>>

\* migrate, lines 256-264: read the page's fields and resolve its name.
\* page.get("body", {}).get(...) raises on a null body and re.sub raises
\* on a null title; both lines are outside the try.
ReadPage ==
    /\ pc = "page"
    /\ IF pages[i].body = "null" \/ pages[i].title_null
       THEN /\ raised' = raised \cup {i}
            /\ Uncaught
            /\ UNCHANGED <<page_name, names, lifecycle>>
       ELSE /\ page_name' = PageName(pages[i])
            /\ names' = [names EXCEPT ![i] = PageName(pages[i])]
            /\ lifecycle' = [lifecycle EXCEPT ![i] = Append(@, "Fetched")]
            /\ pc' = "fetched"
            /\ UNCHANGED <<exit_code, raised>>
    /\ UNCHANGED <<args, space, flaky, att_pool, LibVars, run, first,
                   puts, ListingVars, pages, i,
                   attachments, j, migrated, errors, StoreVars, called,
                   put_ok, attempted, att_failed, att_errors, transformed>>

\* migrate, lines 266-268: in dry-run the page is counted and skipped.
DryRunSkip ==
    /\ pc = "fetched"
    /\ args.dry_run
    /\ migrated' = migrated + 1
    /\ lifecycle' = [lifecycle EXCEPT ![i] = Append(@, "Done")]
    /\ Advance(i, pages)
    /\ UNCHANGED <<args, space, flaky, att_pool, LibVars, run, first,
                   puts, exit_code, ListingVars,
                   pages, errors, StoreVars, called, att_errors, raised,
                   transformed, names>>

\* migrate, lines 270-280: convert the body and prepend the header.  The
\* conversion's first re.sub raises on a body value that is not a string.
Convert ==
    /\ pc = "fetched"
    /\ ~args.dry_run
    /\ IF pages[i].body = "null_value"
       THEN /\ ExceptPage("convert")
            /\ UNCHANGED transformed
       ELSE /\ transformed' = transformed \cup {i}
            /\ lifecycle' = [lifecycle EXCEPT ![i] = Append(@, "Transformed")]
            /\ pc' = "put"
            /\ UNCHANGED <<i, page_name, attachments, j, put_ok, attempted,
                           att_failed, errors, raised>>
    /\ UNCHANGED <<args, space, flaky, att_pool, LibVars, run, first,
                   puts, exit_code, ListingVars,
                   pages, migrated, StoreVars, called, att_errors, names>>

\* XWikiClient.put_page: the page stored under page_name is replaced.
StorePage(store, name, page) ==
    {p \in store : p.page_name # name}
        \cup {[page_name |-> name, title |-> page.title, page_id |-> page.id]}

\* A variant of PutPageError without the jump to the handler: the page
\* goes on to its attachments after a failed put_page.
PutPageError_Ignored ==
    /\ wiki' = wiki
    /\ pc' = "attlist"
    /\ UNCHANGED <<i, page_name, attachments, j, put_ok, attempted,
                   att_failed, errors, raised, lifecycle>>

\* migrate, line 283 with the handler of lines 300-302: a put_page that
\* raises fails the page.
PutPageError ==
    /\ wiki' = wiki
    /\ ExceptPage("put_page")

\* migrate, line 283: xwiki.put_page(...).
PutPage ==
    /\ pc = "put"
    /\ called' = called \cup {"put"}
    /\ puts' = Append(puts, [page_name |-> page_name, title |-> pages[i].title,
                             page_id |-> pages[i].id])
    /\ \E ok \in Answers("put") :
        IF ok
        THEN /\ wiki' = StorePage(wiki, page_name, pages[i])
             /\ put_ok' = TRUE
             /\ lifecycle' = [lifecycle EXCEPT ![i] = Append(@, "Upserted")]
             /\ pc' = "attlist"
             /\ UNCHANGED <<i, page_name, attachments, j, attempted,
                            att_failed, errors, raised>>
        ELSE PutPageError
    /\ UNCHANGED <<args, space, flaky, att_pool, LibVars, run, first,
                   exit_code, ListingVars,
                   pages, migrated, wiki_att, att_errors, transformed, names>>

\* migrate, line 286: confluence.get_page_attachments(page_id); the loop
\* of line 287 ends at once on an empty listing.
GetPageAttachments ==
    /\ pc = "attlist"
    /\ called' = called \cup {"attlist"}
    /\ \E ok \in Answers("attlist") : \E atts \in att_pool :
        IF ok
        THEN /\ attachments' = atts
             /\ j' = 1
             /\ pc' = IF atts = <<>> THEN "count" ELSE "att"
             /\ lifecycle' = IF atts = <<>>
                             THEN [lifecycle EXCEPT
                                      ![i] = Append(@, "AttachmentsMigrated")]
                             ELSE lifecycle
             /\ UNCHANGED <<i, page_name, put_ok, attempted, att_failed,
                            errors, raised>>
        ELSE ExceptPage("get_page_attachments")
    /\ UNCHANGED <<args, space, flaky, att_pool, LibVars, run, first,
                   puts, exit_code, ListingVars,
                   pages, migrated, StoreVars, att_errors, transformed, names>>

\* migrate, line 287: on to the next attachment, or out of the loop.
NextAttachment ==
    /\ j' = j + 1
    /\ pc' = IF j < Len(attachments) THEN "att" ELSE "count"
    /\ lifecycle' = IF j < Len(attachments) THEN lifecycle
                    ELSE [lifecycle EXCEPT
                             ![i] = Append(@, "AttachmentsMigrated")]
    /\ UNCHANGED <<i, page_name, attachments, put_ok, errors, raised>>

\* A variant of AttachmentError without the per-attachment try: the
\* exception reaches the handler of the page.
AttachmentError_Propagates ==
    /\ att_errors' = att_errors \cup {i}
    /\ ExceptPage("attachment")

\* migrate, lines 296-297: the handler of the per-attachment try prints a
\* line and the loop goes on.
AttachmentError ==
    /\ att_errors' = att_errors \cup {i}
    /\ attempted' = Append(attempted, j)
    /\ att_failed' = Append(att_failed, j)
    /\ NextAttachment

\* migrate, lines 288-295: one attachment, downloaded and then uploaded
\* when it has a title and a download link.
MigrateAttachment ==
    /\ pc = "att"
    /\ LET att == attachments[j]
       IN  IF att.download # "" /\ att.title # ""
           THEN \E dl \in Answers("download") : \E up \in Answers("upload") :
                 /\ called' = called \cup (IF dl THEN {"download", "upload"}
                                                 ELSE {"download"})
                 /\ IF dl /\ up
                    THEN /\ wiki_att' = wiki_att \cup {<<page_name, att.title>>}
                         /\ attempted' = Append(attempted, j)
                         /\ UNCHANGED <<att_failed, att_errors>>
                         /\ NextAttachment
                    ELSE /\ wiki_att' = wiki_att
                         /\ AttachmentError
           ELSE /\ NextAttachment
                /\ UNCHANGED <<wiki_att, called, attempted, att_failed,
                               att_errors>>
    /\ UNCHANGED <<args, space, flaky, att_pool, LibVars, run, first,
                   puts, exit_code, ListingVars,
                   pages, migrated, wiki, transformed, names>>

\* migrate, line 299: migrated += 1, the end of the try block.
CountMigrated ==
    /\ pc = "count"
    /\ migrated' = migrated + 1
    /\ lifecycle' = [lifecycle EXCEPT ![i] = Append(@, "Done")]
    /\ Advance(i, pages)
    /\ UNCHANGED <<args, space, flaky, att_pool, LibVars, run, first,
                   puts, exit_code, ListingVars,
                   pages, errors, StoreVars, called, att_errors, raised,
                   transformed, names>>

\* migrate, lines 304-308, and the return through main: the report is
\* printed and the process ends with status 0.
Report ==
    /\ pc = "report"
    /\ pc' = "exit"
    /\ exit_code' = 0
    /\ UNCHANGED <<args, space, flaky, att_pool, LibVars, run, first,
                   puts, ListingVars, pages, i,
                   page_name, migrated, errors, StoreVars, called, put_ok,
                   AttVars, raised, transformed, names, lifecycle>>

Next ==
    \/ Main
    \/ GetSpacePages
    \/ ReadPage
    \/ DryRunSkip
    \/ Convert
    \/ PutPage
    \/ GetPageAttachments
    \/ MigrateAttachment
    \/ CountMigrated
    \/ Report

\* Runs over a small space of arbitrary documents.
Spec == Init /\ [][Next]_vars

\* Runs over spaces large enough to need several listing requests.
SpecPaging == InitPaging /\ [][Next]_vars

\* Runs over one document whose title is any of Titles.
SpecNames == InitNames /\ [][Next]_vars

\* ------------------------------------------------------- a second run
\* migrate has its listing and is in or past its loop.
Listed ==
    \/ pc \in {"page", "fetched", "put", "attlist", "att", "count", "report"}
    \/ pc = "exit" /\ requests # <<>> /\ ~list_failed

\* A new process: nothing but the command line, the source and the target
\* is carried over from the run before.
Restart ==
    /\ pc' = "main"
    /\ exit_code' = -1
    /\ start' = 0
    /\ pages' = <<>>
    /\ requests' = <<>>
    /\ list_failed' = FALSE
    /\ i' = 0
    /\ page_name' = <<>>
    /\ attachments' = <<>>
    /\ j' = 0
    /\ migrated' = 0
    /\ errors' = <<>>
    /\ called' = {}
    /\ put_ok' = FALSE
    /\ attempted' = <<>>
    /\ att_failed' = <<>>
    /\ att_errors' = {}
    /\ raised' = {}
    /\ transformed' = {}
    /\ names' = <<>>
    /\ lifecycle' = <<>>
    /\ UNCHANGED <<args, space, flaky, att_pool, StoreVars, LibVars>>

\* A variant of Rerun in which the second run goes on from the upserts of
\* the first instead of starting from none.
Rerun_KeepsPuts ==
    /\ pc = "exit"
    /\ run = 1
    /\ run' = 2
    /\ first' = [stage |-> "ended", listed |-> Listed, puts |-> puts,
                 wiki |-> wiki]
    /\ puts' = puts
    /\ Restart

\* The script is started again once its first run has ended, with the
\* same command line, over the same source space and against the target
\* store as the first run left it.  What the first run did is kept in
\* first.
Rerun ==
    /\ pc = "exit"
    /\ run = 1
    /\ run' = 2
    /\ first' = [stage |-> "ended", listed |-> Listed, puts |-> puts,
                 wiki |-> wiki]
    /\ puts' = <<>>
    /\ Restart

\* A small space of arbitrary documents with at most one attachment each,
\* every endpoint possibly failing, in either run.
InitRerun ==
    /\ args \in [confluence_password : {TRUE}, xwiki_password : {TRUE},
                 dry_run : BOOLEAN]
    /\ \E n \in 0..MaxPages : \E f \in [1..n -> DocKinds] :
           space = [k \in 1..n |-> MkDoc(k, f[k])]
    /\ flaky = Endpoints
    /\ att_pool = {<<>>, <<[title |-> "f.png", download |-> "/download/f.png"]>>}
    /\ Blank
    /\ run = 1
    /\ first = Off
    /\ LibOff

NextRerun ==
    \/ Next
    \/ Rerun

\* Two runs of the script, one after the other.
SpecRerun == InitRerun /\ [][NextRerun]_vars

\* ----------------------------------------------------- build_page_tree
\* The variables of the migration script, none of which a library call
\* touches, and their values when no script runs.
ScriptVars == <<args, space, flaky, att_pool, pc, exit_code, start, pages,
                requests, list_failed, i, page_name, attachments, j,
                migrated, errors, wiki, wiki_att, called, put_ok, attempted,
                att_failed, att_errors, raised, transformed, names,
                lifecycle, puts, run, first>>

ScriptOff ==
    /\ args = [confluence_password |-> FALSE, xwiki_password |-> FALSE,
               dry_run |-> FALSE]
    /\ space = <<>>
    /\ flaky = {}
    /\ att_pool = {}
    /\ Blank
    /\ run = 1
    /\ first = Off

\* The ids of the pages of a listing, in listing order.
TreeIds == <<"A", "B", "C", "D", "E", "F", "G", "H">>

\* The ancestors a page can come with: none, its parent alone, or the
\* space's home page and then its parent; the parent is any page of the
\* listing, the page itself included.
AncestorLists(n) ==
    {<<>>} \cup { <<[id |-> TreeIds[p]]>> : p \in 1..n }
           \cup { <<[id |-> "home"], [id |-> TreeIds[p]]>> : p \in 1..n }

\* A variant of ParentId that takes the first ancestor.
ParentId_First(page) ==
    IF page.ancestors # <<>> THEN page.ancestors[1].id ELSE "root"

\* build_page_tree, lines 237-238: ancestors[-1]["id"] if ancestors else
\* "root".
ParentId(page) ==
    IF page.ancestors # <<>> THEN page.ancestors[Len(page.ancestors)].id
    ELSE "root"

\* dict.setdefault(key, []).append(value), line 239.
SetDefaultAppend(dict, key, value) ==
    IF key \in DOMAIN dict
    THEN [dict EXCEPT ![key] = Append(@, value)]
    ELSE [k \in DOMAIN dict \cup {key} |->
             IF k = key THEN <<value>> ELSE dict[k]]

\* A call of build_page_tree on up to MaxTreePages pages with distinct ids.
InitTree ==
    /\ ScriptOff
    /\ ServicesOff
    /\ md = Off
    /\ docx = Off
    /\ \E n \in 0..MaxTreePages : \E anc \in [1..n -> AncestorLists(n)] :
           tree = [stage |-> "loop",
                   pages |-> [k \in 1..n |-> [id |-> TreeIds[k],
                                              ancestors |-> anc[k]]],
                   k |-> 1,
                   tree |-> <<>>,
                   printed |-> <<>>]

\* build_page_tree, lines 236-239: one iteration of the loop.
BuildPageTreeStep ==
    /\ tree.stage = "loop"
    /\ tree.k <= Len(tree.pages)
    /\ LET page == tree.pages[tree.k]
       IN  tree' = [tree EXCEPT
                       !.tree = SetDefaultAppend(@, ParentId(page), page),
                       !.k = @ + 1]
    /\ UNCHANGED <<ScriptVars, md, docx, Services>>

\* build_page_tree, line 240: return tree.
BuildPageTreeReturn ==
    /\ tree.stage = "loop"
    /\ tree.k > Len(tree.pages)
    /\ tree' = [tree EXCEPT !.stage = "returned"]
    /\ UNCHANGED <<ScriptVars, md, docx, Services>>

NextTree ==
    \/ BuildPageTreeStep
    \/ BuildPageTreeReturn

\* Calls of build_page_tree.
SpecTree == InitTree /\ [][NextTree]_vars

\* ------------------------------------------------- regular expressions
\* Text is a sequence of one-character strings.  A match of a pattern at
\* a position is [end |-> index of its last character, out |-> what
\* re.sub puts in its place]; end is 0 when the pattern does not match
\* there.  No pattern below matches the empty string.
NoMatch == [end |-> 0, out |-> <<>>]

\* \s and \w
Whitespace == {" ", "\t", "\n", "\r"}
WordChars == Lower \cup Upper \cup DigitChars \cup {"_"}

\* The first index from position from on whose character is in set, or 0.
FirstOf(text, from, set) ==
    LET at == {k \in from..Len(text) : text[k] \in set}
    IN  IF at = {} THEN 0 ELSE CHOOSE k \in at : \A m \in at : k <= m

\* The same, or the index past the end of the text.
UntilOf(text, from, set) ==
    IF FirstOf(text, from, set) = 0 THEN Len(text) + 1
    ELSE FirstOf(text, from, set)

\* The length of the run of characters of set that starts at from.
RunLength(text, from, set) ==
    LET stop == {k \in from..Len(text) : text[k] \notin set}
    IN  IF stop = {} THEN Len(text) + 1 - from
        ELSE (CHOOSE k \in stop : \A m \in stop : k <= m) - from

\* Whether text reads lit at position pos.
LooksAt(text, pos, lit) ==
    /\ pos + Len(lit) - 1 <= Len(text)
    /\ \A k \in 1..Len(lit) : text[pos + k - 1] = lit[k]

\* Whether sub occurs in text.
Contains(sub, text) == \E k \in 1..Len(text) + 1 : LooksAt(text, k, sub)

\* ^ and $ under re.MULTILINE: pos starts a line, a line ends after pos.
LineStart(text, pos) == pos = 1 \/ text[pos - 1] = "\n"
LineEnd(text, pos) == pos = Len(text) \/ text[pos + 1] = "\n"

\* _md_to_xwiki, lines 24-29: ^#{n}\s+(.+)$ -> n "=", " ", \1, " ", n "=".
\* \s+ is greedy and gives back until a character other than a newline
\* follows it; (.+) runs to the end of that line.
MatchHeading(n, text, pos) ==
    LET ws == RunLength(text, pos + n, Whitespace)
        ok == {k \in 1..ws : /\ pos + n + k <= Len(text)
                              /\ text[pos + n + k] # "\n"}
    IN  IF LineStart(text, pos) /\ LooksAt(text, pos, Repeat("#", n))
           /\ ok # {}
        THEN LET g == pos + n + (CHOOSE x \in ok : \A y \in ok : y <= x)
                 e == UntilOf(text, g, {"\n"}) - 1
             IN  [end |-> e,
                  out |-> Repeat("=", n) \o <<" ">> \o SubSeq(text, g, e)
                              \o <<" ">> \o Repeat("=", n)]
        ELSE NoMatch

\* The grave accent, which a string of this language cannot hold.
Backtick == "GRAVE"

Fence == <<Backtick, Backtick, Backtick>>
CodeOpen == <<"{", "{", "c", "o", "d", "e">>
CodeLanguage == <<" ", "l", "a", "n", "g", "u", "a", "g", "e", "=", "'">>
CodeClose == <<"{", "{", "/", "c", "o", "d", "e", "}", "}">>

\* The first position from from on where the text reads a fence, or 0.
FirstFence(text, from) ==
    LET at == {k \in from..Len(text) : LooksAt(text, k, Fence)}
    IN  IF at = {} THEN 0 ELSE CHOOSE k \in at : \A m \in at : k <= m

\* _md_to_xwiki, lines 32-39: a fence, (\w*), \n, (.*?), a fence, with
\* re.DOTALL, replaced by _replace_code_block.
MatchCodeBlock(text, pos) ==
    LET nl == pos + 3 + RunLength(text, pos + 3, WordChars)
        close == FirstFence(text, nl + 1)
    IN  IF /\ LooksAt(text, pos, Fence)
           /\ nl <= Len(text)
           /\ text[nl] = "\n"
           /\ close # 0
        THEN LET lang == SubSeq(text, pos + 3, nl - 1)
                 code == SubSeq(text, nl + 1, close - 1)
             IN  [end |-> close + 2,
                  out |-> (IF lang # <<>>
                           THEN CodeOpen \o CodeLanguage \o lang
                                    \o <<"'", "}", "}">>
                           ELSE CodeOpen \o <<"}", "}">>)
                          \o <<"\n">> \o code \o <<"\n">> \o CodeClose]
        ELSE NoMatch

\* _md_to_xwiki, line 42: a grave accent, one or more characters other
\* than it, a grave accent -> ##\1##
MatchInlineCode(text, pos) ==
    LET q == FirstOf(text, pos + 1, {Backtick})
    IN  IF text[pos] = Backtick /\ q > pos + 1
        THEN [end |-> q,
              out |-> <<"#", "#">> \o SubSeq(text, pos + 1, q - 1)
                          \o <<"#", "#">>]
        ELSE NoMatch

\* A variant of MatchItalic without the four lookarounds: \*([^*]+?)\*
MatchItalic_NoLookaround(text, pos) ==
    LET q == FirstOf(text, pos + 1, {"*"})
    IN  IF text[pos] = "*" /\ q > pos + 1
        THEN [end |-> q,
              out |-> <<"/", "/">> \o SubSeq(text, pos + 1, q - 1)
                          \o <<"/", "/">>]
        ELSE NoMatch

\* _md_to_xwiki, line 46: (?<!\*)\*(?!\*)([^*]+?)(?<!\*)\*(?!\*) -> //\1//
\* The group cannot run over an asterisk, so the closing asterisk is the
\* first one after the opening one.
MatchItalic(text, pos) ==
    LET q == FirstOf(text, pos + 1, {"*"})
    IN  IF /\ text[pos] = "*"
           /\ (pos = 1 \/ text[pos - 1] # "*")
           /\ q > pos + 1
           /\ (q = Len(text) \/ text[q + 1] # "*")
        THEN [end |-> q,
              out |-> <<"/", "/">> \o SubSeq(text, pos + 1, q - 1)
                          \o <<"/", "/">>]
        ELSE NoMatch

\* \]\(([^)]+)\) read from the "]" at q on: the index of the ")", or 0.
LinkTarget(text, q) ==
    LET r == FirstOf(text, q + 2, {")"})
    IN  IF q # 0 /\ q + 1 <= Len(text) /\ text[q + 1] = "(" /\ r > q + 2
        THEN r ELSE 0

\* _md_to_xwiki, line 49: \[([^\]]+)\]\(([^)]+)\) -> [[\1>>\2]]
MatchLink(text, pos) ==
    LET q == FirstOf(text, pos + 1, {"]"})
        r == LinkTarget(text, q)
    IN  IF text[pos] = "[" /\ q > pos + 1 /\ r # 0
        THEN [end |-> r,
              out |-> <<"[", "[">> \o SubSeq(text, pos + 1, q - 1)
                          \o <<">", ">">> \o SubSeq(text, q + 2, r - 1)
                          \o <<"]", "]">>]
        ELSE NoMatch

ImageOpen == <<"[", "[", "i", "m", "a", "g", "e", ":">>
ImageAlt == <<"|", "|", "a", "l", "t", "=", "\"">>
ImageClose == <<"\"", "]", "]">>

\* _md_to_xwiki, line 52: !\[([^\]]*)\]\(([^)]+)\) -> [[image:\2||alt="\1"]]
MatchImage(text, pos) ==
    LET q == FirstOf(text, pos + 2, {"]"})
        r == LinkTarget(text, q)
    IN  IF LooksAt(text, pos, <<"!", "[">>) /\ r # 0
        THEN [end |-> r,
              out |-> ImageOpen \o SubSeq(text, q + 2, r - 1) \o ImageAlt
                          \o SubSeq(text, pos + 2, q - 1) \o ImageClose]
        ELSE NoMatch

\* _md_to_xwiki, line 55: ^---+$ -> ----
MatchRule(text, pos) ==
    LET e == pos + RunLength(text, pos, {"-"}) - 1
    IN  IF LineStart(text, pos) /\ e >= pos + 2 /\ LineEnd(text, e)
        THEN [end |-> e, out |-> <<"-", "-", "-", "-">>]
        ELSE NoMatch

\* ---------------------------------- patterns of confluence_storage_to_xwiki
\* The first position from from on where the text reads lit, or 0.
FirstLit(text, from, lit) ==
    LET at == {k \in from..Len(text) : LooksAt(text, k, lit)}
    IN  IF at = {} THEN 0 ELSE CHOOSE k \in at : \A m \in at : k <= m

\* open(.*?)close with re.DOTALL -> left \1 right: the group ends at the
\* first close after open (lines 127, 139-144, 155).
MatchWrapped(open, close, left, right, text, pos) ==
    LET c == FirstLit(text, pos + Len(open), close)
    IN  IF LooksAt(text, pos, open) /\ c # 0
        THEN [end |-> c + Len(close) - 1,
              out |-> left \o SubSeq(text, pos + Len(open), c - 1) \o right]
        ELSE NoMatch

\* open[^>]*>(.*?)close with re.DOTALL -> left \1 right: the opening tag
\* ends at the first ">", the group at the first close after it (lines
\* 133, 176, 189, 190, 196).
MatchElement(open, close, left, right, text, pos) ==
    LET g == FirstOf(text, pos + Len(open), {">"})
        c == IF g = 0 THEN 0 ELSE FirstLit(text, g + 1, close)
    IN  IF LooksAt(text, pos, open) /\ c # 0
        THEN [end |-> c + Len(close) - 1,
              out |-> left \o SubSeq(text, g + 1, c - 1) \o right]
        ELSE NoMatch

\* open[^>]*> -> out (lines 174, 179, 183, 185, 187).
MatchTag(open, out, text, pos) ==
    LET g == FirstOf(text, pos + Len(open), {">"})
    IN  IF LooksAt(text, pos, open) /\ g # 0
        THEN [end |-> g, out |-> out]
        ELSE NoMatch

\* lit -> out (lines 175, 180, 184, 186, 188).
MatchLiteral(lit, out, text, pos) ==
    IF LooksAt(text, pos, lit)
    THEN [end |-> pos + Len(lit) - 1, out |-> out]
    ELSE NoMatch

\* Lines 130-136: <h{i}[^>]*>(.*?)</h{i}> -> \n, i "=", " ", \1, " ",
\* i "=", \n.
MatchStorageHeading(n, text, pos) ==
    MatchElement(<<"<", "h">> \o IdStr(n),
                 <<"<", "/", "h">> \o IdStr(n) \o <<">">>,
                 <<"\n">> \o Repeat("=", n) \o <<" ">>,
                 <<" ">> \o Repeat("=", n) \o <<"\n">>, text, pos)

MacroOpen ==
    <<"<", "a", "c", ":", "s", "t", "r", "u", "c", "t", "u", "r", "e", "d",
      "-", "m", "a", "c", "r", "o">>
MacroClose ==
    <<"<", "/", "a", "c", ":", "s", "t", "r", "u", "c", "t", "u", "r", "e",
      "d", "-", "m", "a", "c", "r", "o", ">">>
PlainBody ==
    <<"<", "a", "c", ":", "p", "l", "a", "i", "n", "-", "t", "e", "x", "t",
      "-", "b", "o", "d", "y", ">">>
PlainBodyEnd ==
    <<"<", "/", "a", "c", ":", "p", "l", "a", "i", "n", "-", "t", "e", "x",
      "t", "-", "b", "o", "d", "y", ">">>
RichBody ==
    <<"<", "a", "c", ":", "r", "i", "c", "h", "-", "t", "e", "x", "t", "-",
      "b", "o", "d", "y", ">">>
RichBodyEnd ==
    <<"<", "/", "a", "c", ":", "r", "i", "c", "h", "-", "t", "e", "x", "t",
      "-", "b", "o", "d", "y", ">">>

\* ac:name="name"
MacroName(name) ==
    <<"a", "c", ":", "n", "a", "m", "e", "=", "\"">> \o name \o <<"\"">>

\* Lines 148-149 and 208-209:
\* <ac:structured-macro[^>]*ac:name="name"[^>]*>.*?bodyOpen(.*?)bodyClose
\* .*?</ac:structured-macro> with re.DOTALL -> left \1 right.  The name
\* lies in the opening tag, before its first ">"; then come the first
\* bodyOpen, the first bodyClose after it and the first closing tag after
\* that.
MatchMacro(name, bodyOpen, bodyClose, left, right, text, pos) ==
    LET from == pos + Len(MacroOpen)
        g == FirstOf(text, from, {">"})
        named == \E k \in from..g - 1 : LooksAt(text, k, MacroName(name))
        a == IF g = 0 THEN 0 ELSE FirstLit(text, g + 1, bodyOpen)
        b == IF a = 0 THEN 0
             ELSE FirstLit(text, a + Len(bodyOpen), bodyClose)
        c == IF b = 0 THEN 0
             ELSE FirstLit(text, b + Len(bodyClose), MacroClose)
    IN  IF LooksAt(text, pos, MacroOpen) /\ c # 0 /\ named
        THEN [end |-> c + Len(MacroClose) - 1,
              out |-> left \o SubSeq(text, a + Len(bodyOpen), b - 1)
                          \o right]
        ELSE NoMatch

\* Line 150: \n{{code}}\n \1 \n{{/code}}\n
MatchCodeMacro(text, pos) ==
    MatchMacro(<<"c", "o", "d", "e">>, PlainBody, PlainBodyEnd,
               <<"\n">> \o CodeOpen \o <<"}", "}", "\n">>,
               <<"\n">> \o CodeClose \o <<"\n">>, text, pos)

\* Line 210: the marker the replacement writes before the body of a
\* callout, and after it as well: the same text stands on either side of
\* \1 in the replacement.
CalloutMarker(macro) == <<"{", "{">> \o macro \o <<"}", "}">>

\* Lines 207-212: a callout macro -> \n{{macro}}\n \1 \n{{macro}}\n
MatchCallout(macro, text, pos) ==
    MatchMacro(macro, RichBody, RichBodyEnd,
               <<"\n">> \o CalloutMarker(macro) \o <<"\n">>,
               <<"\n">> \o CalloutMarker(macro) \o <<"\n">>, text, pos)

Href == <<"h", "r", "e", "f", "=", "\"">>
AnchorEnd == <<"<", "/", "a", ">">>

\* The end of an anchor whose href=" is read at k: [end, q, g, c] with q
\* the closing quote, g the end of the opening tag, c the </a>; or end 0.
AnchorFrom(text, k) ==
    LET q == FirstOf(text, k + Len(Href), {"\""})
        g == IF q = 0 THEN 0 ELSE FirstOf(text, q + 1, {">"})
        c == IF g = 0 THEN 0 ELSE FirstLit(text, g + 1, AnchorEnd)
    IN  [end |-> IF c = 0 THEN 0 ELSE c + Len(AnchorEnd) - 1,
         q |-> q, g |-> g, c |-> c]

\* Lines 158-162: <a[^>]*href="([^"]*)"[^>]*>(.*?)</a> with re.DOTALL
\* -> [[\2>>\1]].  [^>]* is greedy: of the href=" it can reach before a
\* ">", the last one with which the rest matches is taken.
MatchAnchor(text, pos) ==
    LET stop == UntilOf(text, pos + 2, {">"})
        at == {k \in pos + 2..stop - 1 :
                   LooksAt(text, k, Href) /\ AnchorFrom(text, k).end # 0}
    IN  IF LooksAt(text, pos, <<"<", "a">>) /\ at # {}
        THEN LET k == CHOOSE x \in at : \A y \in at : y <= x
                 m == AnchorFrom(text, k)
             IN  [end |-> m.end,
                  out |-> <<"[", "[">> \o SubSeq(text, m.g + 1, m.c - 1)
                              \o <<">", ">">>
                              \o SubSeq(text, k + Len(Href), m.q - 1)
                              \o <<"]", "]">>]
        ELSE NoMatch

PageLinkOpen ==
    <<"<", "a", "c", ":", "l", "i", "n", "k", ">", "<", "r", "i", ":", "p",
      "a", "g", "e", " ", "r", "i", ":", "c", "o", "n", "t", "e", "n", "t",
      "-", "t", "i", "t", "l", "e", "=", "\"">>
LinkBody ==
    <<"<", "a", "c", ":", "p", "l", "a", "i", "n", "-", "t", "e", "x", "t",
      "-", "l", "i", "n", "k", "-", "b", "o", "d", "y", ">">>
LinkBodyEnd ==
    <<"<", "/", "a", "c", ":", "p", "l", "a", "i", "n", "-", "t", "e", "x",
      "t", "-", "l", "i", "n", "k", "-", "b", "o", "d", "y", ">">>
LinkEnd == <<"<", "/", "a", "c", ":", "l", "i", "n", "k", ">">>

\* Lines 165-171: <ac:link><ri:page ri:content-title="([^"]*)"[^/]*/>
\* (?:<ac:plain-text-link-body>(.*?)</ac:plain-text-link-body>)?</ac:link>
\* with re.DOTALL -> [[ group 2 or group 1 >> group 1 ]].  The title ends
\* at the first quote, the tag at the first "/", which ">" must follow;
\* an empty or absent body gives way to the title.
MatchPageLink(text, pos) ==
    LET t == pos + Len(PageLinkOpen)
        q == FirstOf(text, t, {"\""})
        s == IF q = 0 THEN 0 ELSE FirstOf(text, q + 1, {"/"})
        closed == s # 0 /\ LooksAt(text, s, <<"/", ">">>)
        c == IF closed /\ LooksAt(text, s + 2, LinkBody)
             THEN FirstLit(text, s + 2 + Len(LinkBody),
                           LinkBodyEnd \o LinkEnd)
             ELSE 0
        title == SubSeq(text, t, q - 1)
        body == SubSeq(text, s + 2 + Len(LinkBody), c - 1)
    IN  IF LooksAt(text, pos, PageLinkOpen) /\ closed /\ c # 0
        THEN [end |-> c + Len(LinkBodyEnd) + Len(LinkEnd) - 1,
              out |-> <<"[", "[">> \o (IF body # <<>> THEN body ELSE title)
                          \o <<">", ">">> \o title \o <<"]", "]">>]
        ELSE IF /\ LooksAt(text, pos, PageLinkOpen)
                /\ closed
                /\ LooksAt(text, s + 2, LinkEnd)
        THEN [end |-> s + 1 + Len(LinkEnd),
              out |-> <<"[", "[">> \o title \o <<">", ">">> \o title
                          \o <<"]", "]">>]
        ELSE NoMatch

\* Line 193: <br\s*/?> -> \n
MatchBreak(text, pos) ==
    LET s == pos + 3 + RunLength(text, pos + 3, Whitespace)
        g == IF s <= Len(text) /\ text[s] = "/" THEN s + 1 ELSE s
    IN  IF /\ LooksAt(text, pos, <<"<", "b", "r">>)
           /\ g <= Len(text)
           /\ text[g] = ">"
        THEN [end |-> g, out |-> <<"\n">>]
        ELSE NoMatch

AcImage == <<"<", "a", "c", ":", "i", "m", "a", "g", "e">>
AcImageEnd == <<"<", "/", "a", "c", ":", "i", "m", "a", "g", "e", ">">>
Attachment ==
    <<"<", "r", "i", ":", "a", "t", "t", "a", "c", "h", "m", "e", "n", "t",
      " ", "r", "i", ":", "f", "i", "l", "e", "n", "a", "m", "e", "=", "\"">>

\* The end of an attachment reference read at a: [q, s] with q the quote
\* that closes the file name and s the "/" of the "/>" that closes the
\* tag; s is 0 when the first "/" after the name has no ">" behind it.
AttachmentFrom(text, a) ==
    LET q == FirstOf(text, a + Len(Attachment), {"\""})
        s == IF q = 0 THEN 0 ELSE FirstOf(text, q + 1, {"/"})
    IN  [q |-> q,
         s |-> IF s # 0 /\ LooksAt(text, s, <<"/", ">">>) THEN s ELSE 0]

\* Lines 199-203: <ac:image[^>]*>.*?<ri:attachment ri:filename="([^"]*)"
\* [^/]*/>.*?</ac:image> with re.DOTALL -> [[image:\1]].  The first
\* attachment reference after the opening tag that is closed and has a
\* </ac:image> behind it is taken.
MatchAttachmentImage(text, pos) ==
    LET g == FirstOf(text, pos + Len(AcImage), {">"})
        at == {a \in g + 1..Len(text) :
                   /\ LooksAt(text, a, Attachment)
                   /\ AttachmentFrom(text, a).s # 0
                   /\ FirstLit(text, AttachmentFrom(text, a).s + 2,
                               AcImageEnd) # 0}
    IN  IF LooksAt(text, pos, AcImage) /\ g # 0 /\ at # {}
        THEN LET a == CHOOSE x \in at : \A y \in at : x <= y
                 m == AttachmentFrom(text, a)
             IN  [end |-> FirstLit(text, m.s + 2, AcImageEnd)
                              + Len(AcImageEnd) - 1,
                  out |-> ImageOpen
                              \o SubSeq(text, a + Len(Attachment), m.q - 1)
                              \o <<"]", "]">>]
        ELSE NoMatch

\* Line 215: <[^>]+> -> nothing
MatchAnyTag(text, pos) ==
    LET g == FirstOf(text, pos + 1, {">"})
    IN  IF text[pos] = "<" /\ g > pos + 1
        THEN [end |-> g, out |-> <<>>]
        ELSE NoMatch

\* The character references the inputs of the model use, of the table
\* html.unescape reads.
Entities ==
    { [name |-> <<"a", "m", "p">>, char |-> "&"],
      [name |-> <<"l", "t">>, char |-> "<"],
      [name |-> <<"g", "t">>, char |-> ">"],
      [name |-> <<"q", "u", "o", "t">>, char |-> "\""] }

\* Line 218, html.unescape: & and the name of a character, with or
\* without a semicolon behind it -> the character.
MatchEntity(text, pos) ==
    LET named == {e \in Entities : LooksAt(text, pos + 1, e.name)}
    IN  IF text[pos] = "&" /\ named # {}
        THEN LET e == CHOOSE x \in named : TRUE
                 n == pos + Len(e.name)
             IN  [end |-> IF n + 1 <= Len(text) /\ text[n + 1] = ";"
                          THEN n + 1 ELSE n,
                  out |-> <<e.char>>]
        ELSE NoMatch

\* Line 221: \n{3,} -> \n\n
MatchBlankLines(text, pos) ==
    LET n == RunLength(text, pos, {"\n"})
    IN  IF n >= 3 THEN [end |-> pos + n - 1, out |-> <<"\n", "\n">>]
        ELSE NoMatch

\* Line 127: <!\[CDATA\[(.*?)\]\]> -> \1
MatchCdata(text, pos) ==
    MatchWrapped(<<"<", "!", "[", "C", "D", "A", "T", "A", "[">>, <<"]", "]",
                 ">">>, <<>>, <<>>, text, pos)

\* Line 139: <strong>(.*?)</strong> -> **\1**
MatchStrong(text, pos) ==
    MatchWrapped(<<"<", "s", "t", "r", "o", "n", "g", ">">>, <<"<", "/", "s",
                 "t", "r", "o", "n", "g", ">">>, <<"*", "*">>, <<"*", "*">>,
                 text, pos)

\* Line 140: <b>(.*?)</b> -> **\1**
MatchB(text, pos) ==
    MatchWrapped(<<"<", "b", ">">>, <<"<", "/", "b", ">">>, <<"*", "*">>,
                 <<"*", "*">>, text, pos)

\* Line 143: <em>(.*?)</em> -> //\1//
MatchEm(text, pos) ==
    MatchWrapped(<<"<", "e", "m", ">">>, <<"<", "/", "e", "m", ">">>, <<"/",
                 "/">>, <<"/", "/">>, text, pos)

\* Line 144: <i>(.*?)</i> -> //\1//
MatchI(text, pos) ==
    MatchWrapped(<<"<", "i", ">">>, <<"<", "/", "i", ">">>, <<"/", "/">>,
                 <<"/", "/">>, text, pos)

\* Line 155: <code>(.*?)</code> -> ##\1##
MatchCode(text, pos) ==
    MatchWrapped(<<"<", "c", "o", "d", "e", ">">>, <<"<", "/", "c", "o", "d",
                 "e", ">">>, <<"#", "#">>, <<"#", "#">>, text, pos)

\* Line 174: <ul[^>]*> -> nothing
MatchUl(text, pos) ==
    MatchTag(<<"<", "u", "l">>, <<>>, text, pos)

\* Line 175: </ul> -> nothing
MatchUlEnd(text, pos) ==
    MatchLiteral(<<"<", "/", "u", "l", ">">>, <<>>, text, pos)

\* Line 176: <li[^>]*>(.*?)</li> -> *, a space, \1
MatchLi(text, pos) ==
    MatchElement(<<"<", "l", "i">>, <<"<", "/", "l", "i", ">">>, <<"*",
                 " ">>, <<>>, text, pos)

\* Line 179: <ol[^>]*> -> nothing
MatchOl(text, pos) ==
    MatchTag(<<"<", "o", "l">>, <<>>, text, pos)

\* Line 180: </ol> -> nothing
MatchOlEnd(text, pos) ==
    MatchLiteral(<<"<", "/", "o", "l", ">">>, <<>>, text, pos)

\* Line 183: <table[^>]*> -> nothing
MatchTable(text, pos) ==
    MatchTag(<<"<", "t", "a", "b", "l", "e">>, <<>>, text, pos)

\* Line 184: </table> -> nothing
MatchTableEnd(text, pos) ==
    MatchLiteral(<<"<", "/", "t", "a", "b", "l", "e", ">">>, <<>>, text, pos)

\* Line 185: <tbody[^>]*> -> nothing
MatchTbody(text, pos) ==
    MatchTag(<<"<", "t", "b", "o", "d", "y">>, <<>>, text, pos)

\* Line 186: </tbody> -> nothing
MatchTbodyEnd(text, pos) ==
    MatchLiteral(<<"<", "/", "t", "b", "o", "d", "y", ">">>, <<>>, text, pos)

\* Line 187: <tr[^>]*> -> nothing
MatchTr(text, pos) ==
    MatchTag(<<"<", "t", "r">>, <<>>, text, pos)

\* Line 188: </tr> -> \n
MatchTrEnd(text, pos) ==
    MatchLiteral(<<"<", "/", "t", "r", ">">>, <<"\n">>, text, pos)

\* Line 189: <th[^>]*>(.*?)</th> -> |=\1
MatchTh(text, pos) ==
    MatchElement(<<"<", "t", "h">>, <<"<", "/", "t", "h", ">">>, <<"|",
                 "=">>, <<>>, text, pos)

\* Line 190: <td[^>]*>(.*?)</td> -> |\1
MatchTd(text, pos) ==
    MatchElement(<<"<", "t", "d">>, <<"<", "/", "t", "d", ">">>, <<"|">>,
                 <<>>, text, pos)

\* Line 196: <p[^>]*>(.*?)</p> -> \1\n
MatchParagraph(text, pos) ==
    MatchElement(<<"<", "p">>, <<"<", "/", "p", ">">>, <<>>, <<"\n">>, text,
                 pos)

\* The least element of a set of positions, or 0.
Least(S) == IF S = {} THEN 0 ELSE CHOOSE x \in S : \A y \in S : x <= y

\* The first position from pos on where the pattern M matches.
FirstMatch(M(_, _), text, pos) ==
    Least({k \in pos..Len(text) : M(text, k).end # 0})

\* re.sub(pattern, replacement, text), M being the pattern and the
\* replacement: the text is scanned from the left; up to the first
\* position k where the pattern matches the characters are copied, there
\* the replacement of the match m is emitted, and the scan goes on after
\* the match.
Sub(M(_, _), text) ==
    LET from[pos \in 1..Len(text) + 1] ==
            LET k == FirstMatch(M, text, pos)
                m == M(text, k)
            IN  IF k = 0 THEN SubSeq(text, pos, Len(text))
                ELSE SubSeq(text, pos, k - 1) \o m.out \o from[m.end + 1]
    IN  from[1]

\* The heading pass of level n of _md_to_xwiki, of a callout macro and of
\* level n of confluence_storage_to_xwiki.
SubHeading(n, text) == Sub(LAMBDA t, p : MatchHeading(n, t, p), text)
SubCallout(macro, text) == Sub(LAMBDA t, p : MatchCallout(macro, t, p), text)
SubStorageHeading(n, text) ==
    Sub(LAMBDA t, p : MatchStorageHeading(n, t, p), text)

\* ----------------------------------------------------- _md_to_xwiki
\* The pieces the Markdown inputs are put together from: a grave accent,
\* the two fences that open a code block and the one that closes it, a
\* heading line, an emphasised and a strong word, a link, an image with
\* and without alternative text, a rule, a letter, a space, a newline.
MdFragments ==
    { <<Backtick>>, Fence \o <<"\n">>, Fence \o <<"p", "y", "\n">>, Fence,
      <<"#", " ", "a", "\n">>, <<"*", "a", "*">>, <<"*", "*", "a", "*", "*">>,
      <<"[", "a", "]", "(", "u", ")">>,
      <<"!", "[", "a", "]", "(", "u", ")">>, <<"!", "[", "]", "(", "u", ")">>,
      <<"-", "-", "-">>, <<"a">>, <<" ">>, <<"\n">> }

RECURSIVE Concat(_)
Concat(seqs) == IF seqs = <<>> THEN <<>> ELSE Head(seqs) \o Concat(Tail(seqs))

\* The two examples of the specification: "**bold** and *italic*", with
\* what the rewriter is to make of it, and "*not bold*" as inline code.
BoldAndItalic ==
    <<"*", "*", "b", "o", "l", "d", "*", "*", " ", "a", "n", "d", " ",
      "*", "i", "t", "a", "l", "i", "c", "*">>
BoldAndItalicOut ==
    <<"*", "*", "b", "o", "l", "d", "*", "*", " ", "a", "n", "d", " ",
      "/", "/", "i", "t", "a", "l", "i", "c", "/", "/">>
NotBold ==
    <<Backtick, "*", "n", "o", "t", " ", "b", "o", "l", "d", "*", Backtick>>

MdExamples == {BoldAndItalic, NotBold}

\* Every text of up to MaxStars asterisks and letters, every text of up to
\* MaxFrags fragments, and the examples.
MdInputs ==
    UNION { [1..n -> {"*", "a"}] : n \in 0..MaxStars }
    \cup { Concat(f) :
               f \in UNION { [1..n -> MdFragments] : n \in 0..MaxFrags } }
    \cup MdExamples

\* A call of _md_to_xwiki(md), line 21: text = md.
InitMd ==
    /\ ScriptOff
    /\ ServicesOff
    /\ docx = Off
    /\ tree = Off
    /\ \E src \in MdInputs :
           md = [stage |-> "headings", src |-> src, text |-> src]

\* _md_to_xwiki, lines 24-29: the six heading passes, deepest first.
MdHeadings ==
    /\ md.stage = "headings"
    /\ md' = [md EXCEPT
                 !.text = SubHeading(1, SubHeading(2, SubHeading(3, SubHeading(4,
                              SubHeading(5, SubHeading(6, @)))))),
                 !.stage = "code_blocks"]
    /\ UNCHANGED <<ScriptVars, docx, tree, Services>>

\* _md_to_xwiki, line 39: the code block pass.
MdCodeBlocks ==
    /\ md.stage = "code_blocks"
    /\ md' = [md EXCEPT !.text = Sub(MatchCodeBlock, @), !.stage = "inline_code"]
    /\ UNCHANGED <<ScriptVars, docx, tree, Services>>

\* _md_to_xwiki, line 42: the inline code pass.
MdInlineCode ==
    /\ md.stage = "inline_code"
    /\ md' = [md EXCEPT !.text = Sub(MatchInlineCode, @), !.stage = "italic"]
    /\ UNCHANGED <<ScriptVars, docx, tree, Services>>

\* _md_to_xwiki, line 46: the italic pass.
MdItalic ==
    /\ md.stage = "italic"
    /\ md' = [md EXCEPT !.text = Sub(MatchItalic, @), !.stage = "links"]
    /\ UNCHANGED <<ScriptVars, docx, tree, Services>>

\* _md_to_xwiki, line 49: the link pass.
MdLinks ==
    /\ md.stage = "links"
    /\ md' = [md EXCEPT !.text = Sub(MatchLink, @), !.stage = "images"]
    /\ UNCHANGED <<ScriptVars, docx, tree, Services>>

\* _md_to_xwiki, line 52: the image pass.
MdImages ==
    /\ md.stage = "images"
    /\ md' = [md EXCEPT !.text = Sub(MatchImage, @), !.stage = "rule"]
    /\ UNCHANGED <<ScriptVars, docx, tree, Services>>

\* _md_to_xwiki, lines 55-57: the rule pass, and return text.
MdRuleAndReturn ==
    /\ md.stage = "rule"
    /\ md' = [md EXCEPT !.text = Sub(MatchRule, @), !.stage = "returned"]
    /\ UNCHANGED <<ScriptVars, docx, tree, Services>>

NextMd ==
    \/ MdHeadings
    \/ MdCodeBlocks
    \/ MdInlineCode
    \/ MdItalic
    \/ MdLinks
    \/ MdImages
    \/ MdRuleAndReturn

\* Calls of _md_to_xwiki.
SpecMd == InitMd /\ [][NextMd]_vars

\* ---------------------------------------------------- _docx_to_xwiki
LowerLetters == <<"a", "b", "c", "d", "e", "f", "g", "h", "i", "j", "k", "l",
                  "m", "n", "o", "p", "q", "r", "s", "t", "u", "v", "w", "x",
                  "y", "z">>
UpperLetters == <<"A", "B", "C", "D", "E", "F", "G", "H", "I", "J", "K", "L",
                  "M", "N", "O", "P", "Q", "R", "S", "T", "U", "V", "W", "X",
                  "Y", "Z">>

\* str.lower()
ToLower(text) ==
    [k \in 1..Len(text) |->
        IF \E n \in 1..26 : UpperLetters[n] = text[k]
        THEN LowerLetters[CHOOSE n \in 1..26 : UpperLetters[n] = text[k]]
        ELSE text[k]]

\* str.strip()
Strip(text) ==
    LET ink == {k \in 1..Len(text) : text[k] \notin Whitespace}
    IN  IF ink = {} THEN <<>>
        ELSE SubSeq(text, CHOOSE k \in ink : \A m \in ink : k <= m,
                          CHOOSE k \in ink : \A m \in ink : m <= k)

\* The style names a paragraph can carry; <<>> is a paragraph without style.
StyleNames ==
    { <<"H", "e", "a", "d", "i", "n", "g", " ", "1">>,
      <<"H", "e", "a", "d", "i", "n", "g", " ", "2">>,
      <<"H", "e", "a", "d", "i", "n", "g", " ", "3">>,
      <<"L", "i", "s", "t", " ", "B", "u", "l", "l", "e", "t">>,
      <<"N", "o", "r", "m", "a", "l">>, <<>> }

\* The runs of the paragraphs of the model: text, bold, italic (a bold or
\* italic that is None counts as False).
RunKinds ==
    { [text |-> t, bold |-> b, italic |-> it] :
          t \in {<<"a">>, <<"b", " ">>}, b \in BOOLEAN, it \in BOOLEAN }
    \cup { [text |-> <<>>, bold |-> TRUE, italic |-> FALSE] }

\* The paragraphs of the model: one run of any kind under any style, a
\* bold run and then any run under the default style, and a paragraph
\* without runs.
ParagraphKinds ==
    { [style |-> st, runs |-> <<r>>] : st \in StyleNames, r \in RunKinds }
    \cup { [style |-> <<"N", "o", "r", "m", "a", "l">>,
            runs |-> <<[text |-> <<"a">>, bold |-> TRUE, italic |-> FALSE],
                       r>>] : r \in RunKinds }
    \cup { [style |-> <<"N", "o", "r", "m", "a", "l">>, runs |-> <<>>] }

\* Paragraph.text: the texts of the runs, one after the other.
ParaText(para) == Concat([k \in 1..Len(para.runs) |-> para.runs[k].text])

\* _docx_to_xwiki, lines 34-45: what a run adds to parts.
RunMarkup(r) ==
    IF r.text = <<>> THEN <<>>
    ELSE IF r.bold /\ r.italic
    THEN <<"*", "*", "/", "/">> \o r.text \o <<"/", "/", "*", "*", "*">>
    ELSE IF r.bold THEN <<"*", "*">> \o r.text \o <<"*", "*">>
    ELSE IF r.italic THEN <<"/", "/">> \o r.text \o <<"/", "/">>
    ELSE r.text

\* _docx_to_xwiki, lines 17-46: the line a paragraph adds to lines.
ParagraphLine(para) ==
    LET style == ToLower(para.style)
        text == Strip(ParaText(para))
        parts == Concat([k \in 1..Len(para.runs) |-> RunMarkup(para.runs[k])])
    IN  IF text = <<>> THEN <<>>
        ELSE IF Contains(<<"h", "e", "a", "d", "i", "n", "g", " ", "1">>, style)
        THEN <<"=", " ">> \o text \o <<" ", "=">>
        ELSE IF Contains(<<"h", "e", "a", "d", "i", "n", "g", " ", "2">>, style)
        THEN <<"=", "=", " ">> \o text \o <<" ", "=", "=">>
        ELSE IF Contains(<<"h", "e", "a", "d", "i", "n", "g", " ", "3">>, style)
        THEN <<"=", "=", "=", " ">> \o text \o <<" ", "=", "=", "=">>
        ELSE IF Contains(<<"l", "i", "s", "t">>, style)
        THEN <<"*", " ">> \o text
        ELSE IF parts # <<>> THEN parts ELSE text

\* "\n".join(lines)
RECURSIVE JoinLines(_)
JoinLines(lines) ==
    IF lines = <<>> THEN <<>>
    ELSE IF Len(lines) = 1 THEN lines[1]
    ELSE lines[1] \o <<"\n">> \o JoinLines(Tail(lines))

\* A call of _docx_to_xwiki on a document of up to MaxParas paragraphs.
InitDocx ==
    /\ ScriptOff
    /\ ServicesOff
    /\ md = Off
    /\ tree = Off
    /\ \E n \in 0..MaxParas : \E ps \in [1..n -> ParagraphKinds] :
           docx = [stage |-> "paragraphs", paragraphs |-> ps, k |-> 1,
                   lines |-> <<>>, out |-> <<>>]

\* _docx_to_xwiki, lines 16-46: one iteration of the loop over paragraphs.
DocxParagraph ==
    /\ docx.stage = "paragraphs"
    /\ docx.k <= Len(docx.paragraphs)
    /\ docx' = [docx EXCEPT
                   !.lines = Append(@, ParagraphLine(docx.paragraphs[docx.k])),
                   !.k = @ + 1]
    /\ UNCHANGED <<ScriptVars, md, tree, Services>>

\* _docx_to_xwiki, line 48: return "\n".join(lines).
DocxReturn ==
    /\ docx.stage = "paragraphs"
    /\ docx.k > Len(docx.paragraphs)
    /\ docx' = [docx EXCEPT !.out = JoinLines(docx.lines),
                            !.stage = "returned"]
    /\ UNCHANGED <<ScriptVars, md, tree, Services>>

NextDocx ==
    \/ DocxParagraph
    \/ DocxReturn

\* Calls of _docx_to_xwiki.
SpecDocx == InitDocx /\ [][NextDocx]_vars

\* ---------------------------------------- confluence_storage_to_xwiki
\* Storage format of a callout macro and of a page link.
Callout(macro, body) ==
    MacroOpen \o <<" ">> \o MacroName(macro) \o <<">">> \o RichBody \o body
        \o RichBodyEnd \o MacroClose

PageLink(title, body) ==
    PageLinkOpen \o title \o <<"\"", "/", ">">> \o body \o LinkEnd

CalloutNames ==
    { <<"i", "n", "f", "o">>, <<"w", "a", "r", "n", "i", "n", "g">>,
      <<"n", "o", "t", "e">>, <<"t", "i", "p">> }

\* Short pieces of storage format: text, character references, elements.
CfFragments ==
    { <<"a">>,
      <<" ">>,
      <<"\n">>,
      <<"&", "a", "m", "p", ";">>,
      <<"&", "l", "t", ";", "b", "&", "g", "t", ";">>,
      <<"<", "b", ">", "a", "<", "/", "b", ">">>,
      <<"<", "s", "t", "r", "o", "n", "g", ">", "a", "<", "/", "s", "t", "r",
        "o", "n", "g", ">">>,
      <<"<", "i", ">", "a", "<", "/", "i", ">">>,
      <<"<", "e", "m", ">", "a", "<", "/", "e", "m", ">">>,
      <<"<", "h", "1", ">", "a", "<", "/", "h", "1", ">">>,
      <<"<", "h", "2", " ", "i", "d", "=", "\"", "x", "\"", ">", "a", "<",
        "/", "h", "2", ">">>,
      <<"<", "p", ">", "a", "<", "/", "p", ">">>,
      <<"<", "b", "r", "/", ">">>,
      <<"<", "b", "r", " ", ">">>,
      <<"<", "l", "i", ">", "a", "<", "/", "l", "i", ">">>,
      <<"<", "c", "o", "d", "e", ">", "a", "<", "/", "c", "o", "d", "e", ">">>,
      <<"<", "a", " ", "h", "r", "e", "f", "=", "\"", "u", "\"", ">", "a",
        "<", "/", "a", ">">>,
      <<"<", "a", " ", "h", "r", "e", "f", "=", "\"", "u", "\"", ">", "<",
        "/", "a", ">">>,
      <<"<", "/", "b", ">">> }

\* The example of the specification: a heading, and a paragraph with a
\* link.
SetupGuide ==
    <<"<", "h", "1", ">", "I", "n", "t", "r", "o", "<", "/", "h", "1", ">",
      "<", "p", ">", "S", "e", "e", " ", "<", "a", " ", "h", "r", "e", "f",
      "=", "\"", "h", "t", "t", "p", ":", "/", "/", "x", "\"", ">", "h", "e",
      "r", "e", "<", "/", "a", ">", "<", "/", "p", ">">>

\* Whole elements of storage format: callouts, page links with a body,
\* without one and with an empty one, a code macro, an image, a table, a
\* list, a CDATA section.
CfElements ==
    { Callout(m, <<"a">>) : m \in CalloutNames }
    \cup { PageLink(<<"P">>, <<>>),
           PageLink(<<"P">>, LinkBody \o <<"a">> \o LinkBodyEnd),
           PageLink(<<"P">>, LinkBody \o LinkBodyEnd),
           MacroOpen \o <<" ">> \o MacroName(<<"c", "o", "d", "e">>)
               \o <<">">> \o PlainBody \o <<"a">> \o PlainBodyEnd
               \o MacroClose,
           AcImage \o <<">">> \o Attachment
               \o <<"f", "\"", " ", "/", ">">> \o AcImageEnd,
           <<"<", "t", "a", "b", "l", "e", ">", "<", "t", "b", "o", "d", "y",
             ">", "<", "t", "r", ">", "<", "t", "h", ">", "a", "<", "/", "t",
             "h", ">", "<", "t", "d", ">", "a", "<", "/", "t", "d", ">", "<",
             "/", "t", "r", ">", "<", "/", "t", "b", "o", "d", "y", ">", "<",
             "/", "t", "a", "b", "l", "e", ">">>,
           <<"<", "u", "l", ">", "<", "l", "i", ">", "a", "<", "/", "l", "i",
             ">", "<", "/", "u", "l", ">", "<", "o", "l", ">", "<", "l", "i",
             ">", "a", "<", "/", "l", "i", ">", "<", "/", "o", "l", ">">>,
           <<"<", "!", "[", "C", "D", "A", "T", "A", "[", "a", "]", "]", ">">>,
           SetupGuide }

\* Every text of up to MaxCfFrags fragments, and every element alone,
\* after a letter, before one and between two.
CfInputs ==
    { Concat(f) :
          f \in UNION { [1..n -> CfFragments] : n \in 0..MaxCfFrags } }
    \cup { pre \o e \o post :
               pre \in {<<>>, <<"a">>}, e \in CfElements,
               post \in {<<>>, <<"a">>} }

\* A call of confluence_storage_to_xwiki(storage_html), line 124:
\* text = storage_html.
InitCf ==
    /\ ScriptOff
    /\ md = Off
    /\ docx = Off
    /\ tree = Off
    /\ prev = Off
    /\ lr = Off
    /\ sync = Off
    /\ word = Off
    /\ sched = Off
    /\ api = Off
    /\ \E src \in CfInputs :
           cf = [stage |-> "cdata", src |-> src, text |-> src]

\* What a pass of the rewriter leaves alone.
CfOthers == <<ScriptVars, md, docx, tree, prev, lr, sync, word, sched, api>>

\* Line 127: CDATA sections are unwrapped.
CfCdata ==
    /\ cf.stage = "cdata"
    /\ cf' = [cf EXCEPT !.text = Sub(MatchCdata, @), !.stage = "headings"]
    /\ UNCHANGED CfOthers

\* Lines 130-136: the six heading passes, <h1> first.
CfHeadings ==
    /\ cf.stage = "headings"
    /\ cf' = [cf EXCEPT
                 !.text = SubStorageHeading(6, SubStorageHeading(5, SubStorageHeading(4,
                              SubStorageHeading(3, SubStorageHeading(2,
                                  SubStorageHeading(1, @)))))),
                 !.stage = "bold"]
    /\ UNCHANGED CfOthers

\* Lines 139-140: <strong>, then <b>.
CfBold ==
    /\ cf.stage = "bold"
    /\ cf' = [cf EXCEPT !.text = Sub(MatchB, Sub(MatchStrong, @)),
                        !.stage = "italic"]
    /\ UNCHANGED CfOthers

\* Lines 143-144: <em>, then <i>.
CfItalic ==
    /\ cf.stage = "italic"
    /\ cf' = [cf EXCEPT !.text = Sub(MatchI, Sub(MatchEm, @)),
                        !.stage = "code_blocks"]
    /\ UNCHANGED CfOthers

\* Lines 147-152: code macros.
CfCodeBlocks ==
    /\ cf.stage = "code_blocks"
    /\ cf' = [cf EXCEPT !.text = Sub(MatchCodeMacro, @),
                        !.stage = "inline_code"]
    /\ UNCHANGED CfOthers

\* Line 155: <code>.
CfInlineCode ==
    /\ cf.stage = "inline_code"
    /\ cf' = [cf EXCEPT !.text = Sub(MatchCode, @), !.stage = "links"]
    /\ UNCHANGED CfOthers

\* Lines 158-162: anchors.
CfLinks ==
    /\ cf.stage = "links"
    /\ cf' = [cf EXCEPT !.text = Sub(MatchAnchor, @), !.stage = "page_links"]
    /\ UNCHANGED CfOthers

\* Lines 165-171: page links.
CfPageLinks ==
    /\ cf.stage = "page_links"
    /\ cf' = [cf EXCEPT !.text = Sub(MatchPageLink, @), !.stage = "ul"]
    /\ UNCHANGED CfOthers

\* Lines 174-176: <ul>, </ul>, <li>.
CfUnorderedLists ==
    /\ cf.stage = "ul"
    /\ cf' = [cf EXCEPT !.text = Sub(MatchLi, Sub(MatchUlEnd, Sub(MatchUl, @))),
                        !.stage = "ol"]
    /\ UNCHANGED CfOthers

\* Lines 179-180: <ol>, </ol>.
CfOrderedLists ==
    /\ cf.stage = "ol"
    /\ cf' = [cf EXCEPT !.text = Sub(MatchOlEnd, Sub(MatchOl, @)),
                        !.stage = "tables"]
    /\ UNCHANGED CfOthers

\* Lines 183-190: the eight table passes.
CfTables ==
    /\ cf.stage = "tables"
    /\ cf' = [cf EXCEPT
                 !.text = Sub(MatchTd, Sub(MatchTh, Sub(MatchTrEnd, Sub(MatchTr,
                              Sub(MatchTbodyEnd, Sub(MatchTbody, Sub(MatchTableEnd,
                                  Sub(MatchTable, @)))))))),
                 !.stage = "breaks"]
    /\ UNCHANGED CfOthers

\* Line 193: <br>.
CfLineBreaks ==
    /\ cf.stage = "breaks"
    /\ cf' = [cf EXCEPT !.text = Sub(MatchBreak, @), !.stage = "paragraphs"]
    /\ UNCHANGED CfOthers

\* Line 196: <p>.
CfParagraphs ==
    /\ cf.stage = "paragraphs"
    /\ cf' = [cf EXCEPT !.text = Sub(MatchParagraph, @), !.stage = "images"]
    /\ UNCHANGED CfOthers

\* Lines 199-203: images.
CfImages ==
    /\ cf.stage = "images"
    /\ cf' = [cf EXCEPT !.text = Sub(MatchAttachmentImage, @), !.stage = "callouts"]
    /\ UNCHANGED CfOthers

\* Lines 206-212: the four callout passes.
CfCallouts ==
    /\ cf.stage = "callouts"
    /\ cf' = [cf EXCEPT
                 !.text = SubCallout(<<"t", "i", "p">>,
                              SubCallout(<<"n", "o", "t", "e">>,
                                  SubCallout(<<"w", "a", "r", "n", "i", "n", "g">>,
                                      SubCallout(<<"i", "n", "f", "o">>, @)))),
                 !.stage = "tags"]
    /\ UNCHANGED CfOthers

\* Line 215: the tags that are left.
CfStripTags ==
    /\ cf.stage = "tags"
    /\ cf' = [cf EXCEPT !.text = Sub(MatchAnyTag, @), !.stage = "entities"]
    /\ UNCHANGED CfOthers

\* Line 218: html.unescape.
CfUnescape ==
    /\ cf.stage = "entities"
    /\ cf' = [cf EXCEPT !.text = Sub(MatchEntity, @),
                        !.stage = "blank_lines"]
    /\ UNCHANGED CfOthers

\* Lines 221-223: blank lines, and return text.strip().
CfCleanAndReturn ==
    /\ cf.stage = "blank_lines"
    /\ cf' = [cf EXCEPT !.text = Strip(Sub(MatchBlankLines, @)),
                        !.stage = "returned"]
    /\ UNCHANGED CfOthers

NextCf ==
    \/ CfCdata
    \/ CfHeadings
    \/ CfBold
    \/ CfItalic
    \/ CfCodeBlocks
    \/ CfInlineCode
    \/ CfLinks
    \/ CfPageLinks
    \/ CfUnorderedLists
    \/ CfOrderedLists
    \/ CfTables
    \/ CfLineBreaks
    \/ CfParagraphs
    \/ CfImages
    \/ CfCallouts
    \/ CfStripTags
    \/ CfUnescape
    \/ CfCleanAndReturn

\* Calls of confluence_storage_to_xwiki.
SpecCf == InitCf /\ [][NextCf]_vars

\* ------------------------------------------- a rewriter applied twice
\* Canonical markup: a heading, bold, italic, a link, and what separates
\* them.
CanonicalFragments ==
    { <<"=", " ", "a", " ", "=">>,
      <<"*", "*", "a", "*", "*">>,
      <<"/", "/", "a", "/", "/">>,
      <<"[", "[", "a", ">", ">", "u", "]", "]">>,
      <<" ">>,
      <<"\n">> }

\* Markdown and storage format of a heading, of emphasis and of a link;
\* in the last one the bold text is "<a>", written with character
\* references as storage format writes it.
MdSources ==
    { <<"#", " ", "a">>,
      <<"*", "a", "*">>,
      <<"[", "a", "]", "(", "u", ")">> }

CfSources ==
    { <<"<", "h", "1", ">", "a", "<", "/", "h", "1", ">">>,
      <<"<", "b", ">", "a", "<", "/", "b", ">">>,
      <<"<", "i", ">", "a", "<", "/", "i", ">">>,
      <<"<", "a", " ", "h", "r", "e", "f", "=", "\"", "u", "\"", ">", "a",
        "<", "/", "a", ">">>,
      <<"<", "b", ">", "&", "l", "t", ";", "a", "&", "g", "t", ";", "<", "/",
        "b", ">">> }

\* Every text of up to MaxCanonFrags fragments.
TextsOf(fragments) ==
    { Concat(f) :
          f \in UNION { [1..n -> fragments] : n \in 0..MaxCanonFrags } }

\* Canonical markup as a rewriter returns it: without white space around
\* it.
CanonicalTexts == {t \in TextsOf(CanonicalFragments) : Strip(t) = t}

\* A call of _md_to_xwiki or of confluence_storage_to_xwiki, on a source
\* or on canonical markup.
InitAgain ==
    /\ ScriptOff
    /\ docx = Off
    /\ tree = Off
    /\ prev = Off
    /\ lr = Off
    /\ sync = Off
    /\ word = Off
    /\ sched = Off
    /\ api = Off
    /\ \/ /\ cf = Off
          /\ \E src \in TextsOf(CanonicalFragments \cup MdSources) :
                 md = [stage |-> "headings", src |-> src, text |-> src]
       \/ /\ md = Off
          /\ \E src \in TextsOf(CanonicalFragments \cup CfSources) :
                 cf = [stage |-> "cdata", src |-> src, text |-> src]

\* _md_to_xwiki is called on the text its first call returned.
MdAgain ==
    /\ md.stage = "returned"
    /\ prev = Off
    /\ prev' = md
    /\ md' = [stage |-> "headings", src |-> md.text, text |-> md.text]
    /\ UNCHANGED <<ScriptVars, docx, tree, cf, lr, sync, word, sched, api>>

\* confluence_storage_to_xwiki is called on the text its first call
\* returned.
CfAgain ==
    /\ cf.stage = "returned"
    /\ prev = Off
    /\ prev' = cf
    /\ cf' = [stage |-> "cdata", src |-> cf.text, text |-> cf.text]
    /\ UNCHANGED <<ScriptVars, md, docx, tree, lr, sync, word, sched, api>>

NextAgain ==
    \/ NextMd
    \/ NextCf
    \/ MdAgain
    \/ CfAgain

\* A rewriter applied once, and once more to its result.
SpecAgain == InitAgain /\ [][NextAgain]_vars

\* ------------------------------------------------------------ list_repos
\* The page of the listing of a user with total repositories: the
\* repositories, numbered in listing order, that the page holds.
Batch(total, page) ==
    [k \in 1..Min(per_page, total - Min(total, (page - 1) * per_page)) |->
        (page - 1) * per_page + k]

\* A call of list_repos, lines 22-24: repos = [], page = 1.  The user has
\* up to MaxRepos repositories, and the API may answer with an error.
InitListRepos ==
    /\ ScriptOff
    /\ md = Off
    /\ docx = Off
    /\ tree = Off
    /\ cf = Off
    /\ prev = Off
    /\ sync = Off
    /\ word = Off
    /\ sched = Off
    /\ api = Off
    /\ \E total \in 0..MaxRepos, flaky_api \in BOOLEAN :
           lr = [stage |-> "loop", total |-> total, flaky |-> flaky_api,
                 page |-> 1, repos |-> <<>>, requested |-> <<>>]

\* What a call of list_repos leaves alone.
ListReposOthers ==
    <<ScriptVars, md, docx, tree, cf, prev, sync, word, sched, api>>

\* Lines 25-38, one turn of the loop: the page is requested; an empty
\* batch ends the loop and the repositories are returned (lines 35-36,
\* 41), any other batch is added and the next page is due.
ListReposPage ==
    /\ lr.stage = "loop"
    /\ LET batch == Batch(lr.total, lr.page)
       IN  lr' = [lr EXCEPT
                     !.requested = Append(@, lr.page),
                     !.repos = @ \o batch,
                     !.page = IF batch = <<>> THEN @ ELSE @ + 1,
                     !.stage = IF batch = <<>> THEN "returned" ELSE @]
    /\ UNCHANGED ListReposOthers

\* Line 33: the API answers with an error status and raise_for_status
\* raises out of list_repos.
ListReposError ==
    /\ lr.stage = "loop"
    /\ lr.flaky
    /\ lr' = [lr EXCEPT !.requested = Append(@, lr.page),
                        !.stage = "raised"]
    /\ UNCHANGED ListReposOthers

NextListRepos ==
    \/ ListReposPage
    \/ ListReposError

\* Calls of list_repos.
SpecListRepos == InitListRepos /\ [][NextListRepos]_vars

\* ----------------------------------------------------------- import_word
\* str.rsplit(".", 1)[0]: what stands before the last dot, or all of it.
BeforeLastDot(name) ==
    LET dots == {k \in 1..Len(name) : name[k] = "."}
    IN  IF dots = {} THEN name
        ELSE SubSeq(name, 1, (CHOOSE k \in dots : \A m \in dots : m <= k) - 1)

\* str.replace(" ", "_")
SpacesToUnderscores(text) ==
    [k \in 1..Len(text) |-> IF text[k] = " " THEN "_" ELSE text[k]]

\* The names of the uploaded files.
FileNames ==
    { <<"r", ".", "d", "o", "c", "x">>,
      <<"a", " ", "b", ".", "d", "o", "c", "x">>,
      <<"a", ".", "b", ".", "d", "o", "c", "x">>,
      <<"d", "o", "c", "x">> }

\* A request of import_word, lines 52-56: a file and a title; the empty
\* title stands for a title that is not given as well.
InitWord ==
    /\ ScriptOff
    /\ md = Off
    /\ docx = Off
    /\ tree = Off
    /\ cf = Off
    /\ prev = Off
    /\ lr = Off
    /\ sync = Off
    /\ sched = Off
    /\ api = Off
    /\ \E title \in Titles, filename \in FileNames :
           word = [stage |-> "read", title |-> title, filename |-> filename,
                   page_title |-> <<>>, page_name |-> <<>>, put |-> <<>>]

\* What a request of import_word leaves alone.
WordOthers == <<ScriptVars, md, docx, tree, cf, prev, lr, sync, sched, api>>

\* Lines 58-63: the upload is read as a document, then
\* page_title = title or file.filename.rsplit(".", 1)[0] and
\* page_name = page_title.replace(" ", "_").
ImportWordRead ==
    /\ word.stage = "read"
    /\ LET page_title == IF word.title # <<>> THEN word.title
                         ELSE BeforeLastDot(word.filename)
       IN  word' = [word EXCEPT !.page_title = page_title,
                                !.page_name = SpacesToUnderscores(page_title),
                                !.stage = "put"]
    /\ UNCHANGED WordOthers

\* Line 60: the upload is no Word document and Document raises.
ImportWordBadFile ==
    /\ word.stage = "read"
    /\ word' = [word EXCEPT !.stage = "raised"]
    /\ UNCHANGED WordOthers

\* Lines 65-69: the document is converted, the page is put and the
\* response is returned.
ImportWordPut ==
    /\ word.stage = "put"
    /\ word' = [word EXCEPT
                   !.put = Append(@, [page_name |-> word.page_name,
                                      title |-> word.page_title]),
                   !.stage = "returned"]
    /\ UNCHANGED WordOthers

\* Line 66: put_page is called and raises.
ImportWordPutError ==
    /\ word.stage = "put"
    /\ word' = [word EXCEPT
                   !.put = Append(@, [page_name |-> word.page_name,
                                      title |-> word.page_title]),
                   !.stage = "raised"]
    /\ UNCHANGED WordOthers

NextWord ==
    \/ ImportWordRead
    \/ ImportWordBadFile
    \/ ImportWordPut
    \/ ImportWordPutError

\* Requests of import_word.
SpecWord == InitWord /\ [][NextWord]_vars

\* ------------------------------------------------------------ sync_repos
\* Names of repositories.
RepoNames == { <<"a">>, <<"b", ".", "c">>, <<"d", "-", "e">> }

\* Every list of up to MaxSyncRepos repositories, none of them twice.
RepoLists ==
    { l \in UNION { [1..n -> RepoNames] : n \in 0..MaxSyncRepos } :
          \A a, b \in 1..Len(l) : l[a] = l[b] => a = b }

\* A request of sync_repos, lines 96-98: synced = [], errors = [],
\* repos_data = [].  The request names repositories (line 100) or, with the
\* empty list, none (line 109).  put holds the calls of put_page, unfetched
\* the requested names whose metadata fetch failed.
InitSync ==
    /\ ScriptOff
    /\ md = Off
    /\ docx = Off
    /\ tree = Off
    /\ cf = Off
    /\ prev = Off
    /\ lr = Off
    /\ word = Off
    /\ sched = Off
    /\ api = Off
    /\ \E repos \in RepoLists :
           sync = [stage |-> IF repos # <<>> THEN "fetch" ELSE "list",
                   request |-> repos, k |-> 1, repos_data |-> <<>>,
                   synced |-> <<>>, errors |-> <<>>, put |-> <<>>,
                   unfetched |-> {}, total |-> -1]

\* What a request of sync_repos leaves alone.
SyncOthers == <<ScriptVars, md, docx, tree, cf, prev, lr, word, sched, api>>

\* The loop of lines 101-107 goes on to the next requested name, and after
\* the last one the loop of line 111 starts.
AfterFetch(r) ==
    IF r.k < Len(r.request) THEN [r EXCEPT !.k = @ + 1]
    ELSE [r EXCEPT !.k = 1, !.stage = "sync"]

\* Lines 102-104: get_repo_info answers and the repository joins the
\* working list under the name it was requested with.
SyncFetchInfo ==
    /\ sync.stage = "fetch"
    /\ sync' = AfterFetch([sync EXCEPT
                              !.repos_data = Append(@, sync.request[sync.k])])
    /\ UNCHANGED SyncOthers

\* Lines 105-107: get_repo_info raises: errors.append(f"{repo_name}: {e}").
\* An entry is modelled by the name and the call that raised.
SyncFetchInfoError ==
    /\ sync.stage = "fetch"
    /\ sync' = AfterFetch([sync EXCEPT
                              !.errors = Append(@,
                                  [name |-> sync.request[sync.k],
                                   call |-> "get_repo_info"]),
                              !.unfetched = @ \cup {sync.request[sync.k]}])
    /\ UNCHANGED SyncOthers

\* Line 109: repos_data = await github_client.list_repos().
SyncListRepos ==
    /\ sync.stage = "list"
    /\ \E repos \in RepoLists :
           sync' = [sync EXCEPT !.repos_data = repos, !.stage = "sync"]
    /\ UNCHANGED SyncOthers

\* Line 109: list_repos raises, out of sync_repos.
SyncListReposError ==
    /\ sync.stage = "list"
    /\ sync' = [sync EXCEPT !.stage = "raised"]
    /\ UNCHANGED SyncOthers

\* Lines 112-120: the page of the repository is built and put under the
\* sanitized name, and synced.append(name).
SyncRepo ==
    /\ sync.stage = "sync"
    /\ sync.k <= Len(sync.repos_data)
    /\ LET name == sync.repos_data[sync.k]
       IN  sync' = [sync EXCEPT
                       !.put = Append(@,
                           [page_name |-> _sanitize_page_name(name),
                            title |-> name]),
                       !.synced = Append(@, name),
                       !.k = @ + 1]
    /\ UNCHANGED SyncOthers

\* A variant of SyncRepoError that goes on without an entry in errors.
SyncRepoError_Dropped ==
    /\ sync.stage = "sync"
    /\ sync.k <= Len(sync.repos_data)
    /\ \E call \in {"get_readme", "get_repo_languages", "put_page"} :
           sync' = [sync EXCEPT !.k = @ + 1]
    /\ UNCHANGED SyncOthers

\* Lines 113-118 and 121-123: get_readme, get_repo_languages or put_page
\* raises: errors.append(f"{name}: {e}"), and the loop goes on.
SyncRepoError ==
    /\ sync.stage = "sync"
    /\ sync.k <= Len(sync.repos_data)
    /\ \E call \in {"get_readme", "get_repo_languages", "put_page"} :
           LET name == sync.repos_data[sync.k]
           IN  sync' = [sync EXCEPT
                           !.errors = Append(@, [name |-> name,
                                                 call |-> call]),
                           !.k = @ + 1]
    /\ UNCHANGED SyncOthers

\* Line 125: GitHubSyncResponse(synced, errors, total=len(synced)).
SyncReturn ==
    /\ sync.stage = "sync"
    /\ sync.k > Len(sync.repos_data)
    /\ sync' = [sync EXCEPT !.total = Len(sync.synced),
                            !.stage = "returned"]
    /\ UNCHANGED SyncOthers

NextSync ==
    \/ SyncFetchInfo
    \/ SyncFetchInfoError
    \/ SyncListRepos
    \/ SyncListReposError
    \/ SyncRepo
    \/ SyncRepoError
    \/ SyncReturn

\* Requests of sync_repos.
SpecSync == InitSync /\ [][NextSync]_vars

\* ----------------------------------------------- _run_all_scans, scan_all
\* The scans in the order of the four blocks of _run_all_scans and of the
\* list of scan_all (main.py, lines 172-177).
ScanOrder == <<"Docker", "Network", "ESXi", "Synology">>
ApiOrder == <<"docker", "network", "esxi", "synology">>

\* What the k-th scan can come to: "ok", the call that raises ("scan",
\* "analyze" or "write") or, for the ESXi and the Synology scanner, data
\* that hold an "error" key.
Outcomes(k) ==
    {"ok", "scan", "analyze", "write"}
    \cup (IF k >= 3 THEN {"error"} ELSE {})

\* The calls a scan makes up to the one that raises: the scanner, then the
\* analysis and the wiki write, which data with an "error" key skip.
Calls(name, outcome) ==
    <<[scan |-> name, call |-> "scan"]>>
    \o (IF outcome \in {"scan", "error"} THEN <<>>
        ELSE <<[scan |-> name, call |-> "analyze"]>>)
    \o (IF outcome \in {"scan", "error", "analyze"} THEN <<>>
        ELSE <<[scan |-> name, call |-> "write"]>>)

\* A variant of Caught that lets the exception out of _run_all_scans.
Caught_Propagates(r) == [r EXCEPT !.stage = "raised"]

\* scheduler.py, lines 26-27, 35-36, 45-46 and 55-56: except Exception
\* logs the failure, and the run goes on behind the block.
Caught(r) == [r EXCEPT !.n = @ + 1]

\* The k-th try block of _run_all_scans; failed holds the scans whose
\* block raised.
Block(r, k, outcome) ==
    LET logged == [r EXCEPT !.log = @ \o Calls(ScanOrder[k], outcome)]
    IN  IF outcome \in {"scan", "analyze", "write"}
        THEN Caught([logged EXCEPT !.failed = @ \cup {ScanOrder[k]}])
        ELSE [logged EXCEPT !.n = @ + 1]

\* A scheduled run of _run_all_scans and a request of scan_all.
InitScans ==
    /\ ScriptOff
    /\ md = Off
    /\ docx = Off
    /\ tree = Off
    /\ cf = Off
    /\ prev = Off
    /\ lr = Off
    /\ sync = Off
    /\ word = Off
    /\ sched = [stage |-> "run", n |-> 1, log |-> <<>>, failed |-> {}]
    /\ api = [stage |-> "loop", n |-> 1, results |-> <<>>, raised |-> {}]

\* What the scheduled run and the request leave alone.
ScanOthers == <<ScriptVars, md, docx, tree, cf, prev, lr, sync, word>>

\* scheduler.py, lines 20-27.
DockerScan ==
    /\ sched.stage = "run"
    /\ sched.n = 1
    /\ \E outcome \in Outcomes(1) : sched' = Block(sched, 1, outcome)
    /\ UNCHANGED <<ScanOthers, api>>

\* scheduler.py, lines 29-36.
NetworkScan ==
    /\ sched.stage = "run"
    /\ sched.n = 2
    /\ \E outcome \in Outcomes(2) : sched' = Block(sched, 2, outcome)
    /\ UNCHANGED <<ScanOthers, api>>

\* scheduler.py, lines 38-46.
EsxiScan ==
    /\ sched.stage = "run"
    /\ sched.n = 3
    /\ \E outcome \in Outcomes(3) : sched' = Block(sched, 3, outcome)
    /\ UNCHANGED <<ScanOthers, api>>

\* scheduler.py, lines 48-56.
SynologyScan ==
    /\ sched.stage = "run"
    /\ sched.n = 4
    /\ \E outcome \in Outcomes(4) : sched' = Block(sched, 4, outcome)
    /\ UNCHANGED <<ScanOthers, api>>

\* scheduler.py, line 58: the run logs its end and returns.
RunAllScansReturn ==
    /\ sched.stage = "run"
    /\ sched.n = 5
    /\ sched' = [sched EXCEPT !.stage = "returned"]
    /\ UNCHANGED <<ScanOthers, api>>

\* main.py, lines 172-181, one turn of the loop: results[name] is what
\* the scan function returns, {"status": "ok", ...} or, for data with an
\* "error" key, {"status": "error", ...} (lines 147, 160), or the error
\* entry of line 181 when it raises.
ScanAllNext ==
    /\ api.stage = "loop"
    /\ api.n <= 4
    /\ \E outcome \in Outcomes(api.n) :
           api' = [api EXCEPT
                      !.results = Append(@,
                          [name |-> ApiOrder[api.n],
                           status |-> IF outcome = "ok" THEN "ok"
                                      ELSE "error"]),
                      !.raised = IF outcome \in {"scan", "analyze", "write"}
                                 THEN @ \cup {ApiOrder[api.n]} ELSE @,
                      !.n = @ + 1]
    /\ UNCHANGED <<ScanOthers, sched>>

\* main.py, line 182: return results.
ScanAllReturn ==
    /\ api.stage = "loop"
    /\ api.n = 5
    /\ api' = [api EXCEPT !.stage = "returned"]
    /\ UNCHANGED <<ScanOthers, sched>>

NextScans ==
    \/ DockerScan
    \/ NetworkScan
    \/ EsxiScan
    \/ SynologyScan
    \/ RunAllScansReturn
    \/ ScanAllNext
    \/ ScanAllReturn

\* A scheduled run and a request of scan_all.
SpecScans == InitScans /\ [][NextScans]_vars

\* ------------------------------------------------------ claim helpers
\* The state a page is in: the last one of its lifecycle.
Final(d) == IF lifecycle[d] = <<>> THEN "Pending"
            ELSE lifecycle[d][Len(lifecycle[d])]

HasErrorEntry(d) == \E k \in 1..Len(errors) : errors[k].title = pages[d].title

\* The record put_page stores for the page at index d under name.
Stored(name, d) ==
    [page_name |-> name, title |-> pages[d].title, page_id |-> pages[d].id]

\* The attachments among the first n of the listing that have both a title
\* and a download link, in listing order.
RECURSIVE Migratable(_, _)
Migratable(atts, n) ==
    IF n = 0 THEN <<>>
    ELSE IF atts[n].download # "" /\ atts[n].title # ""
         THEN Append(Migratable(atts, n - 1), n)
         ELSE Migratable(atts, n - 1)

Chain == <<"Fetched", "Transformed", "Upserted", "AttachmentsMigrated", "Done">>

\* ------------------------------------------------------------- claims
\* C1: in a run that is not a dry run, every page one of whose steps raised
\* has an entry in the error list and is not counted as migrated, and every
\* later page of the listing is processed: once the process has ended, each
\* of them is Done or Failed.
C1_EveryRaiseIsRecorded ==
    ~args.dry_run =>
        \A d \in raised :
            /\ HasErrorEntry(d)
            /\ Final(d) # "Done"
            /\ pc = "exit" =>
                   \A e \in (d + 1)..Len(pages) : Final(e) \in {"Done", "Failed"}

\* C2: no attachment of the current page is listed, downloaded or uploaded
\* before put_page of that page has returned successfully; from then on, and
\* through every attachment step, the page's text is in the target; and the
\* target holds attachments only under names that have a page.
C2_TextBeforeAttachments ==
    /\ (pc \in {"att", "count"} \/ attempted # <<>>) => put_ok
    /\ put_ok => /\ pc \in {"attlist", "att", "count"}
                 /\ Stored(page_name, i) \in wiki
    /\ \A a \in wiki_att : \E p \in wiki : p.page_name = a[1]

\* C2 witness: the text of the current page is stored and one of its
\* attachments has failed.
C2_Witness ==
    /\ put_ok
    /\ att_failed # <<>>
    /\ Stored(page_name, i) \in wiki

\* C3: inside the attachment loop every attachment before the current one
\* that has a title and a link was attempted, in listing order, whether or
\* not an earlier one failed; after the loop all of them were.  A failed
\* attachment leaves the page's text in the target and no error entry, and
\* the page is counted: it is Done once the loop has moved on.
C3_SiblingAttachmentsAttempted ==
    /\ pc = "att" => attempted = Migratable(attachments, j - 1)
    /\ pc = "count" => attempted = Migratable(attachments, Len(attachments))
    /\ att_failed # <<>> =>
           /\ pc \in {"att", "count"}
           /\ Stored(page_name, i) \in wiki
           /\ i \notin raised
    /\ \A d \in att_errors :
           /\ d \notin raised
           /\ (d < i \/ pc \in {"report", "exit"}) => Final(d) = "Done"

\* C3 witness: the first attachment failed, the second was attempted and
\* stored, and the loop is over.
C3_Witness ==
    /\ pc = "count"
    /\ att_failed = <<1>>
    /\ attempted = <<1, 2>>
    /\ <<page_name, "f.png">> \in wiki_att

\* C4: at the end of a run the report tells the pages with a failed
\* attachment from the full successes: each has an entry in the failure
\* list and is not among the pages counted as migrated.
C4_PartialFailureReported ==
    (pc = "exit" /\ exit_code = 0) =>
        /\ \A d \in att_errors : HasErrorEntry(d)
        /\ migrated = Cardinality({d \in 1..Len(pages) :
                                      Final(d) = "Done" /\ d \notin att_errors})

\* C5: every page goes through Fetched, Transformed, Upserted,
\* AttachmentsMigrated, Done in that order, skipping none, or to Failed from
\* one of them; pages before the current one are Done or Failed and pages
\* after it have not started; and once the process has ended after a
\* successful listing every page is Done (counted) or Failed (in errors).
C5_DocumentLifecycle ==
    \A d \in 1..Len(lifecycle) :
        /\ \E k \in 0..Len(Chain) :
              \/ lifecycle[d] = SubSeq(Chain, 1, k)
              \/ k \in 1..(Len(Chain) - 1)
                   /\ lifecycle[d] = Append(SubSeq(Chain, 1, k), "Failed")
        /\ d < i => Final(d) \in {"Done", "Failed"}
        /\ d > i => Final(d) = "Pending"
        /\ (pc = "exit" /\ Listed) => Final(d) \in {"Done", "Failed"}
        /\ Final(d) = "Failed" => HasErrorEntry(d)

\* C6: a listing request that fails ends the run: the process exits with a
\* non-zero status, no endpoint but the listing was called, the target is
\* untouched, nothing is counted and no error entry is made, whatever pages
\* the earlier requests returned.
C6_ListingErrorIsFatal ==
    list_failed =>
        /\ pc = "exit"
        /\ exit_code = 1
        /\ called = {"list"}
        /\ wiki = {}
        /\ wiki_att = {}
        /\ migrated = 0
        /\ errors = <<>>
        /\ lifecycle = <<>>

\* C6 witness: the third request failed after two full pages, in a run
\* that is not a dry run.
C6_Witness ==
    /\ list_failed
    /\ ~args.dry_run
    /\ Len(pages) = 2 * limit
    /\ Len(requests) = 3

\* C7: the requests are made at offsets 0, 50, 100, ... in order; while the
\* loop runs, pages is the space up to the next offset, which lies within
\* the space, so the loop makes at most Len(space) \div 50 + 1 requests; and
\* when it has returned, pages is the whole space and the last request was
\* the first whose answer was empty or shorter than 50.
C7_Pagination ==
    /\ requests = [k \in 1..Len(requests) |-> (k - 1) * limit]
    /\ Len(requests) <= (Len(space) \div limit) + 1
    /\ pc = "listing" =>
           /\ start = Len(requests) * limit
           /\ start <= Len(space)
           /\ pages = SubSeq(space, 1, start)
    /\ Listed =>
           /\ pages = space
           /\ Len(requests) = (Len(space) \div limit) + 1

\* C7 witness: a space of more than 100 pages was listed with three
\* requests.
C7_Witness ==
    /\ Listed
    /\ Len(pages) > 2 * limit
    /\ Len(requests) = 3

\* C8: a dry run calls no write endpoint and leaves the target untouched,
\* and at its end every page has been through the conversion and has the
\* name a real run gives it.
C8_DryRunTransformsWithoutWriting ==
    args.dry_run =>
        /\ called \subseteq {"list"}
        /\ wiki = {}
        /\ wiki_att = {}
        /\ (pc = "exit" /\ exit_code = 0) =>
               /\ transformed = 1..Len(pages)
               /\ \A d \in 1..Len(pages) : names[d] = PageName(pages[d])

\* C9: the process exits with a non-zero status and without any network
\* call when a password is missing; with both passwords and a successful
\* listing it exits with status 0.
C9_ExitStatus ==
    pc = "exit" =>
        /\ ~(args.confluence_password /\ args.xwiki_password) =>
               exit_code # 0 /\ called = {} /\ requests = <<>>
        /\ (args.confluence_password /\ args.xwiki_password /\ ~list_failed) =>
               exit_code = 0

\* C10: two different pages of a run are never given the same page_name.
C10_UniqueNames ==
    \A d \in 1..Len(names) : \A e \in 1..Len(names) :
        (d # e /\ names[d] # <<>> /\ names[e] # <<>>) => names[d] # names[e]


\* ------------------------------------------------------------ C11, C12
\* The grammar of a target page name: [A-Za-z0-9_-], 1 to 100 characters.
ValidName(name) ==
    /\ Len(name) >= 1
    /\ Len(name) <= MaxNameLen
    /\ \A k \in 1..Len(name) :
           name[k] \in Lower \cup Upper \cup DigitChars \cup {"_", "-"}

C12_ReplaceThenTruncate ==
    \A d \in 1..Len(names) :
        names[d] # <<>> /\ pages[d].title # <<>> =>
            names[d] = SubSeq(_sanitize_page_name(pages[d].title), 1,
                              Min(Len(pages[d].title), MaxNameLen))


\* ----------------------------------------------------------------- C13
\* The names of the pages of a store.
PageNames(store) == {p.page_name : p \in store}

\* The names of a sequence of put_page calls.
PutNames(calls) == {calls[k].page_name : k \in 1..Len(calls)}

\* Both runs have ended and both had the whole listing.
BothRunsEnded == run = 2 /\ pc = "exit" /\ first.listed /\ Listed

PlacesOf(page) ==
    {pl \in {<<key, pos>> : key \in DOMAIN tree.tree,
                            pos \in 1..Len(tree.pages)} :
        /\ pl[2] <= Len(tree.tree[pl[1]])
        /\ tree.tree[pl[1]][pl[2]] = page}

\* The index in the input of the page with the id.
IndexOf(id) == CHOOSE k \in 1..Len(tree.pages) : tree.pages[k].id = id

\* C14: every page handed to build_page_tree is in exactly one child list
\* of the returned tree, the one keyed by the id of its last ancestor, or
\* the one keyed "root" when it has no ancestors; the lists hold nothing
\* else and each keeps the input order.
C14_EveryPageInOneChildList ==
    tree.stage = "returned" =>
        /\ \A d \in 1..Len(tree.pages) :
               LET page == tree.pages[d]
                   key == IF page.ancestors = <<>> THEN "root"
                          ELSE page.ancestors[Len(page.ancestors)].id
               IN  /\ Cardinality(PlacesOf(page)) = 1
                   /\ \A pl \in PlacesOf(page) : pl[1] = key
        /\ \A key \in DOMAIN tree.tree :
               LET list == tree.tree[key]
               IN  /\ \A pos \in 1..Len(list) :
                          \E d \in 1..Len(tree.pages) :
                              list[pos] = tree.pages[d]
                   /\ \A a, b \in 1..Len(list) :
                          a < b => IndexOf(list[a].id) < IndexOf(list[b].id)

\* A tree was returned in which a page with two ancestors sits after
\* another page under their common parent, and a third page under "root".
C14_Witness ==
    /\ tree.stage = "returned"
    /\ "root" \in DOMAIN tree.tree
    /\ \E key \in DOMAIN tree.tree :
           /\ Len(tree.tree[key]) = 2
           /\ Len(tree.tree[key][2].ancestors) = 2

\* The id a page's parent link leads to after n steps ("root" once the
\* chain leaves the listing).
RECURSIVE Up(_, _)
Up(id, n) ==
    IF n = 0 THEN id
    ELSE LET here == Up(id, n - 1)
         IN  IF \E k \in 1..Len(tree.pages) : tree.pages[k].id = here
             THEN LET page == tree.pages[IndexOf(here)]
                  IN  IF page.ancestors = <<>> THEN "root"
                      ELSE page.ancestors[Len(page.ancestors)].id
             ELSE "root"

\* The page's parent links lead back to the page.
OnCycle(page) == \E n \in 1..Len(tree.pages) : Up(page.id, n) = page.id

\* C15: when the parent links of the input form a cycle, the builder
\* returns, every document on the cycle is in the child list of "root"
\* and one cycle warning has been reported per such document.
C15_CycleReparentedToRoot ==
    tree.stage = "returned" =>
        LET cyclic == {d \in 1..Len(tree.pages) : OnCycle(tree.pages[d])}
        IN  /\ \A d \in cyclic : \A pl \in PlacesOf(tree.pages[d]) :
                   pl[1] = "root"
            /\ Len(tree.printed) = Cardinality(cyclic)


\* ------------------------------------------------------- C16, C17, C18
\* The inline code spans of a text with exactly two grave accents: the
\* positions of the two, when something stands between them.
CodeSpans(text) ==
    LET ticks == {k \in 1..Len(text) : text[k] = Backtick}
    IN  IF Cardinality(ticks) = 2
        THEN {sp \in ticks \X ticks : sp[1] + 1 < sp[2]}
        ELSE {}

\* C16: what stands between the grave accents of an inline code span,
\* emphasis markers included, is in the output as it was, between the
\* inline code markers.
C16_InlineCodeKeptLiteral ==
    md.stage = "returned" =>
        \A sp \in CodeSpans(md.src) :
            Contains(<<"#", "#">> \o SubSeq(md.src, sp[1] + 1, sp[2] - 1)
                         \o <<"#", "#">>, md.text)

\* The lengths of the runs of two or more asterisks of a text, in order.
RECURSIVE StarRuns(_, _)
StarRuns(text, pos) ==
    IF pos > Len(text) THEN <<>>
    ELSE IF text[pos] = "*"
         THEN LET n == RunLength(text, pos, {"*"})
              IN  (IF n >= 2 THEN <<n>> ELSE <<>>) \o StarRuns(text, pos + n)
         ELSE StarRuns(text, pos + 1)

\* An asterisk with no asterisk next to it.
Single(text, p) ==
    /\ text[p] = "*"
    /\ p = 1 \/ text[p - 1] # "*"
    /\ p = Len(text) \/ text[p + 1] # "*"

\* The spans *...* of a text: two single asterisks with something but no
\* asterisk between them.
ItalicSpans(text) ==
    {sp \in (1..Len(text)) \X (1..Len(text)) :
        /\ sp[1] + 1 < sp[2]
        /\ Single(text, sp[1])
        /\ Single(text, sp[2])
        /\ \A k \in (sp[1] + 1)..(sp[2] - 1) : text[k] # "*"}

\* C17: the italic pass leaves every run of two or more asterisks as it
\* found it and leaves no *...* span behind; it turns
\* "**bold** and *italic*" into "**bold** and //italic//".
C17_ItalicSparesBold ==
    [][md.stage = "italic" /\ md'.stage = "links" =>
          /\ StarRuns(md'.text, 1) = StarRuns(md.text, 1)
          /\ ItalicSpans(md'.text) = {}
          /\ md.text = BoldAndItalic => md'.text = BoldAndItalicOut]_vars

\* The italic pass has run on "**bold** and *italic*".
C17_Witness ==
    /\ md.stage = "links"
    /\ md.src = BoldAndItalic
    /\ md.text = BoldAndItalicOut

\* C18: the content of a fenced code block of the input is in the output
\* unchanged, inside the canonical code block; no other pass rewrites it.
C18_CodeBlockKeptIntact ==
    md.stage = "returned" =>
        LET p == FirstFence(md.src, 1)
        IN  p # 0 /\ MatchCodeBlock(md.src, p).end # 0 =>
                Contains(MatchCodeBlock(md.src, p).out, md.text)

\* ----------------------------------------------------------------- C20
\* C20: every image reference of the input, with or without alternative
\* text, is in the output as [[image:url||alt="alt"]].
C20_ImagesBecomeImageMarkup ==
    md.stage = "returned" =>
        \A p \in 1..Len(md.src) :
            MatchImage(md.src, p).end # 0 =>
                Contains(MatchImage(md.src, p).out, md.text)


\* ----------------------------------------------------------------- C19
\* C19: a run that is both bold and italic is rendered **//text//**, the
\* bold markers outside, two asterisks on either side: the line of a body
\* paragraph is made of its runs rendered so.
C19_BoldItalicBalanced ==
    \A k \in 1..Len(docx.lines) :
        LET para == docx.paragraphs[k]
        IN  /\ para.style \in {<<"N", "o", "r", "m", "a", "l">>, <<>>}
            /\ Len(para.runs) = 1
            /\ para.runs[1].bold
            /\ para.runs[1].italic
            /\ Strip(para.runs[1].text) # <<>>
            => docx.lines[k] = <<"*", "*", "/", "/">> \o para.runs[1].text
                                   \o <<"/", "/", "*", "*">>


\* ------------------------------------------------------------ C21, C22
\* Whether a text is made of letters, digits and underscores only.
PlainText(text) == \A k \in 1..Len(text) : text[k] \in WordChars

\* migrate, lines 275-279: the form of the callout that heads a migrated
\* page: {{info}}, a line of text, {{/info}}.
CalloutBlock(macro, body) ==
    <<"{", "{">> \o macro \o <<"}", "}", "\n">> \o body
        \o <<"\n", "{", "{", "/">> \o macro \o <<"}", "}">>

\* C21: every callout macro of the input (info, warning, note, tip) with a
\* body of plain text is in the output as a block that opens with
\* {{category}}, holds the body and closes with {{/category}}, the form
\* of the header migrate writes.
C21_CalloutsWellFormed ==
    cf.stage = "returned" =>
        \A macro \in CalloutNames : \A p \in 1..Len(cf.src) :
            LET m == MatchMacro(macro, RichBody, RichBodyEnd, <<>>, <<>>,
                                cf.src, p)
            IN  m.end # 0 /\ PlainText(m.out)
                => Contains(CalloutBlock(macro, m.out), cf.text)

\* [[text>>target]], with the target for an empty text.
CanonicalLink(text, target) ==
    <<"[", "[">> \o (IF text = <<>> THEN target ELSE text) \o <<">", ">">>
        \o target \o <<"]", "]">>

\* The text and the target of the anchor <a href="target">text</a> read
\* at position p of a text; none when no such anchor is read there.
AnchorAt(text, p) ==
    LET k == p + 3
        m == AnchorFrom(text, k)
    IN  IF LooksAt(text, p, <<"<", "a", " ">> \o Href) /\ m.end # 0
        THEN [found |-> TRUE, text |-> SubSeq(text, m.g + 1, m.c - 1),
              target |-> SubSeq(text, k + Len(Href), m.q - 1)]
        ELSE [found |-> FALSE]

\* C22: every anchor of the input with a plain text, or none, and a plain
\* target is in the output as [[text>>target]], with the target as text
\* when there is none; and no rewriter returns a link with an empty
\* display text, "[[>>".
C22_LinksHaveDisplayText ==
    /\ cf.stage = "returned" =>
           /\ ~Contains(<<"[", "[", ">", ">">>, cf.text)
           /\ \A p \in 1..Len(cf.src) :
                  LET a == AnchorAt(cf.src, p)
                  IN  a.found /\ PlainText(a.text) /\ PlainText(a.target)
                      => Contains(CanonicalLink(a.text, a.target), cf.text)
    /\ md.stage = "returned" => ~Contains(<<"[", "[", ">", ">">>, md.text)


\* ----------------------------------------------------------------- C23
\* C23: a rewriter returns canonical markup made of headings, bold,
\* italic and links unchanged, and returns what it returned for a source
\* built from headings, emphasis and links unchanged when it is applied
\* to it again: rewrite(rewrite(x)) = rewrite(x).
C23_CanonicalFixedPoint ==
    /\ md.stage = "returned" =>
           /\ md.src \in CanonicalTexts => md.text = md.src
           /\ prev # Off => md.text = prev.text
    /\ cf.stage = "returned" =>
           /\ cf.src \in CanonicalTexts => cf.text = cf.src
           /\ prev # Off => cf.text = prev.text


\* ----------------------------------------------------------------- C24
\* C24: list_repos requests no page after a page that held fewer than
\* per_page repositories or none, and returns the repositories of the
\* pages it received, in listing order.
C24_StopsAtShortPage ==
    lr.stage # "off" =>
        /\ \A k \in 1..Len(lr.requested) - 1 :
               Len(Batch(lr.total, lr.requested[k])) = per_page
        /\ lr.stage = "returned" => lr.repos = [k \in 1..lr.total |-> k]


\* ----------------------------------------------------------------- C25
\* Whether a name is made of [A-Za-z0-9_-] only and no longer than the
\* target store's identifiers.
Identifier(name) ==
    /\ Len(name) <= MaxNameLen
    /\ \A k \in 1..Len(name) :
           name[k] \in Lower \cup Upper \cup DigitChars \cup {"_", "-"}

\* C25: every page_name import_word and sync_repos pass to put_page is
\* made of [A-Za-z0-9_-] only and at most MaxNameLen characters long.
C25_BridgePageNames ==
    /\ word.stage # "off" =>
           \A k \in 1..Len(word.put) : Identifier(word.put[k].page_name)
    /\ sync.stage # "off" =>
           \A k \in 1..Len(sync.put) : Identifier(sync.put[k].page_name)


\* ----------------------------------------------------------------- C26
\* C26: migrated never decreases; errors only grows, by one entry for the
\* page at hand behind the others; whenever the loop turns to a page, and
\* at the report, migrated + len(errors) is the number of pages handled;
\* and when a run whose listing succeeded ends, migrated + len(errors) =
\* len(pages), in dry-run with migrated = len(pages) and no errors.
C26_ReportAccounting ==
    [][/\ migrated' >= migrated
       /\ errors' # errors =>
              /\ errors' = Append(errors, errors'[Len(errors')])
              /\ errors'[Len(errors')].title = pages[i].title
       /\ pc' = "page" => migrated' + Len(errors') = i' - 1
       /\ pc' = "report" => migrated' + Len(errors') = Len(pages')
       /\ pc' = "exit" /\ ~list_failed' =>
              /\ migrated' + Len(errors') = Len(pages')
              /\ args'.dry_run => migrated' = Len(pages') /\ errors' = <<>>
      ]_vars


\* ----------------------------------------------------------------- C27
\* Whether a repository is in synced, and whether it has an entry in
\* errors.
InSynced(name) == \E k \in 1..Len(sync.synced) : sync.synced[k] = name
InErrors(name) == \E k \in 1..Len(sync.errors) : sync.errors[k].name = name

\* The repositories of the working list the loop of line 111 is done
\* with.
Handled == IF sync.stage \in {"sync", "returned"} THEN sync.k - 1 ELSE 0

ScansOf(log) ==
    LET scans == SelectSeq(log, LAMBDA e : e.call = "scan")
    IN  [k \in 1..Len(scans) |-> scans[k].scan]

\* C28: a run of _run_all_scans calls the Docker, Network, ESXi and
\* Synology scanners in that order, each once, whatever raised before, and
\* no exception leaves it; scan_all returns one entry for each of the four
\* names, in that order, and an error entry for every scan that raised.
C28_AllScansAttempted ==
    /\ sched.stage # "off" =>
           /\ sched.stage # "raised"
           /\ ScansOf(sched.log) = SubSeq(ScanOrder, 1, sched.n - 1)
           /\ sched.stage = "returned" => ScansOf(sched.log) = ScanOrder
    /\ api.stage = "returned" =>
           /\ [k \in 1..Len(api.results) |-> api.results[k].name] = ApiOrder
           /\ \A k \in 1..Len(api.results) :
                  api.results[k].name \in api.raised
                  => api.results[k].status = "error"

\* A run that returned after the Docker scanner, the Network analysis and
\* the ESXi wiki write raised, and a response of scan_all after its
\* Docker scan raised.
C28_Witness ==
    /\ sched.stage = "returned"
    /\ sched.failed = {"Docker", "Network", "ESXi"}
    /\ Len(sched.log) = 1 + 2 + 3 + 3
    /\ api.stage = "returned"
    /\ "docker" \in api.raised

=============================================================================
